---- MODULE Spec2Model ----
(***************************************************************************)
(* Filter query language of the ledger application: the client-side        *)
(* tokenizer, parser and serializer (lib/utils/queryParser.ts) and the     *)
(* server-side evaluator and line matcher (TransactionRepository).         *)
(*                                                                         *)
(* A JavaScript string is a sequence of one-character strings; arrays are  *)
(* sequences; `undefined` / `null` are the records None / Null.            *)
(***************************************************************************)
EXTENDS Integers, Sequences, FiniteSets, TLC

None == [type |-> "undefined"]
Null == [type |-> "null"]

(***************************************************************************)
(* Strings                                                                 *)
(***************************************************************************)
UpperChars == <<"A","B","C","D","E","F","G","H","I","J","K","L","M",
                "N","O","P","Q","R","S","T","U","V","W","X","Y","Z">>
LowerChars == <<"a","b","c","d","e","f","g","h","i","j","k","l","m",
                "n","o","p","q","r","s","t","u","v","w","x","y","z">>

LowerOf == [u \in {UpperChars[k] : k \in DOMAIN UpperChars} |->
               LowerChars[CHOOSE k \in DOMAIN UpperChars : UpperChars[k] = u]]

\* String.prototype.toLowerCase on one character
toLowerChar(c) == IF c \in DOMAIN LowerOf THEN LowerOf[c] ELSE c

\* slip: the text kept as typed
toLowerCase_asTyped(s) == s

toLowerCase(s) == [k \in DOMAIN s |-> toLowerChar(s[k])]

\* the regular expression class \s
IsSpace(c) == c \in {" ", "\t", "\n"}

\* query.substring(i, i + n) with 1-based i: clipped at the end of the string
substring(s, i, n) ==
    LET last == IF i + n - 1 <= Len(s) THEN i + n - 1 ELSE Len(s)
    IN  IF i > Len(s) THEN <<>> ELSE SubSeq(s, i, last)

\* String.prototype.trim
RECURSIVE trimStart(_)
trimStart(s) == IF s /= <<>> /\ IsSpace(Head(s)) THEN trimStart(Tail(s)) ELSE s
RECURSIVE trimEnd(_)
trimEnd(s) ==
    IF s /= <<>> /\ IsSpace(s[Len(s)]) THEN trimEnd(SubSeq(s, 1, Len(s) - 1)) ELSE s
trim(s) == trimEnd(trimStart(s))

\* s.substring(i, i + Len(word)).toLowerCase() === word, for a lower-case word;
\* also how a regular expression with the i flag matches the literal word at i
lowerEqualsAt(s, i, word) ==
    /\ i + Len(word) - 1 <= Len(s)
    /\ \A k \in DOMAIN word : toLowerChar(s[i + k - 1]) = word[k]

RECURSIVE Flatten(_)
Flatten(ss) == IF ss = <<>> THEN <<>> ELSE Head(ss) \o Flatten(Tail(ss))

Str_and == <<"a","n","d">>
Str_or == <<"o","r">>
Str_category == <<"c","a","t","e","g","o","r","y">>
Str_tag == <<"t","a","g">>
Str_account == <<"a","c","c","o","u","n","t">>
Str_counterparty == <<"c","o","u","n","t","e","r","p","a","r","t","y">>
Str_dash == <<"-">>
Str_emptyMarker == <<"~","e","m","p","t","y","~">>

(***************************************************************************)
(* Tokenizer                                                               *)
(***************************************************************************)
\* the alternation (category|tag|account) of the filter regex, in order
RegexFields == <<Str_category, Str_tag, Str_account>>

FilterToken(f, v) == [type |-> "filter", field |-> f, value |-> v, isEmpty |-> (v = Str_dash)]
SimpleToken(t) == [type |-> t]
EofToken == SimpleToken("eof")

\* end (inclusive) of the longest run of characters satisfying \S from j
RECURSIVE NonSpaceRunEnd(_, _)
NonSpaceRunEnd(q, j) ==
    IF j + 1 <= Len(q) /\ ~IsSpace(q[j + 1]) THEN NonSpaceRunEnd(q, j + 1) ELSE j

\* end (inclusive) of the longest run of characters satisfying [^"] from j
RECURSIVE NonQuoteRunEnd(_, _)
NonQuoteRunEnd(q, j) ==
    IF j + 1 <= Len(q) /\ q[j + 1] /= "\"" THEN NonQuoteRunEnd(q, j + 1) ELSE j

\* the field alternative of the filter regex that matches at i and is followed
\* by a colon: its index in RegexFields, or 0
fieldAt(q, i) ==
    IF \E k \in DOMAIN RegexFields :
          /\ lowerEqualsAt(q, i, RegexFields[k])
          /\ i + Len(RegexFields[k]) <= Len(q)
          /\ q[i + Len(RegexFields[k])] = ":"
    THEN CHOOSE k \in DOMAIN RegexFields :
          /\ lowerEqualsAt(q, i, RegexFields[k])
          /\ i + Len(RegexFields[k]) <= Len(q)
          /\ q[i + Len(RegexFields[k])] = ":"
    ELSE 0

\* slip: the quoted alternative never matches
quotedEnd_never(q, j) == 0

\* the first alternative "([^"]+)" at j: the index of the last character of
\* group 3 when it matches, else 0
quotedEnd(q, j) ==
    IF /\ j + 1 <= Len(q)
       /\ q[j] = "\""
       /\ q[j + 1] /= "\""
       /\ NonQuoteRunEnd(q, j + 1) + 1 <= Len(q)
       /\ q[NonQuoteRunEnd(q, j + 1) + 1] = "\""
    THEN NonQuoteRunEnd(q, j + 1)
    ELSE 0

\* the value alternatives ("([^"]+)"|(\S+)) at j, the first character after the
\* colon; qe is quotedEnd(q, j), be the end of the \S run from j
valueMatch(q, i, field, j, qe, be) ==
    IF qe > 0
    THEN [type |-> "match", field |-> field, value |-> SubSeq(q, j + 1, qe), length |-> qe + 2 - i]
    ELSE IF j <= Len(q) /\ ~IsSpace(q[j])
    THEN [type |-> "match", field |-> field, value |-> SubSeq(q, j, be), length |-> be + 1 - i]
    ELSE None

fieldMatch(q, i, k) ==
    IF k = 0 THEN None
    ELSE valueMatch(q, i, toLowerCase(substring(q, i, Len(RegexFields[k]))),
                    i + Len(RegexFields[k]) + 1,
                    quotedEnd(q, i + Len(RegexFields[k]) + 1),
                    NonSpaceRunEnd(q, i + Len(RegexFields[k]) + 1))

\* query.substring(i).match(/^(category|tag|account):("([^"]+)"|(\S+))/i):
\* None, or the field (lower-cased), the value (group 3 || group 4) and the
\* length of the match
filterMatch(q, i) == fieldMatch(q, i, fieldAt(q, i))

\* the inner while loop: skip whitespace
RECURSIVE skipSpaces(_, _)
skipSpaces(q, i) == IF i <= Len(q) /\ IsSpace(q[i]) THEN skipSpaces(q, i + 1) ELSE i

Step(push, next, stop) == [push |-> push, next |-> next, stop |-> stop]

\* the filter rule, then the skip of an unknown character
filterOrSkip(i, m) ==
    IF m /= None
    THEN Step(<<FilterToken(m.field, m.value)>>, i + m.length, FALSE)
    ELSE Step(<<>>, i + 1, FALSE)

\* slip: the keywords recognised without looking at the character after them
tokenizeAt_noBoundary(q, i) ==
    IF i > Len(q) THEN Step(<<>>, i, TRUE)
    ELSE IF q[i] = "(" THEN Step(<<SimpleToken("lparen")>>, i + 1, FALSE)
    ELSE IF q[i] = ")" THEN Step(<<SimpleToken("rparen")>>, i + 1, FALSE)
    ELSE IF lowerEqualsAt(q, i, Str_and) THEN Step(<<SimpleToken("and")>>, i + 3, FALSE)
    ELSE IF lowerEqualsAt(q, i, Str_or) THEN Step(<<SimpleToken("or")>>, i + 2, FALSE)
    ELSE filterOrSkip(i, filterMatch(q, i))

\* the rules of one iteration of the outer while loop, at a non-blank index i
tokenizeAt(q, i) ==
    IF i > Len(q) THEN Step(<<>>, i, TRUE)
    ELSE IF q[i] = "(" THEN Step(<<SimpleToken("lparen")>>, i + 1, FALSE)
    ELSE IF q[i] = ")" THEN Step(<<SimpleToken("rparen")>>, i + 1, FALSE)
    ELSE IF lowerEqualsAt(q, i, Str_and) /\ (i + 3 > Len(q) \/ IsSpace(q[i + 3]))
    THEN Step(<<SimpleToken("and")>>, i + 3, FALSE)
    ELSE IF lowerEqualsAt(q, i, Str_or) /\ (i + 2 > Len(q) \/ IsSpace(q[i + 2]))
    THEN Step(<<SimpleToken("or")>>, i + 2, FALSE)
    ELSE filterOrSkip(i, filterMatch(q, i))

\* one iteration of the while loop of Tokenizer.tokenize from index i (1-based):
\* the tokens pushed, the next index, and whether the loop breaks
tokenizeStep(q, i) == tokenizeAt(q, skipSpaces(q, i))

RECURSIVE tokenizeFrom(_, _)
tokenizeRest(q, s) == IF s.stop THEN <<>> ELSE s.push \o tokenizeFrom(q, s.next)
tokenizeFrom(q, i) == IF i > Len(q) THEN <<>> ELSE tokenizeRest(q, tokenizeStep(q, i))

\* slip: the token array left without its eof
tokenize_noEof(q) == tokenizeFrom(q, 1)

\* new Tokenizer(query): the token array, closed by eof
tokenize(q) == tokenizeFrom(q, 1) \o <<EofToken>>

\* Tokenizer.current / advance over a token array and the cursor pos (1-based)
current(toks, pos) == toks[pos]
advance(toks, pos) == IF pos < Len(toks) THEN pos + 1 ELSE pos
isEof(toks, pos) == current(toks, pos).type = "eof"

(***************************************************************************)
(* Parser: recursive descent over the token array; every function returns  *)
(* the node it built and the cursor it leaves behind.                      *)
(***************************************************************************)
FilterLeaf(f, v, e) == [type |-> "filter", field |-> f, value |-> v, isEmpty |-> e]
Group(op, ch) == [type |-> "group", operator |-> op, children |-> ch]

IsGroupOf(node, op) == node.type = "group" /\ node.operator = op

\* slip: a new two-child group on every iteration
extendOrCreate_nested(left, op, right) == Group(op, <<left, right>>)

\* the body of the while loops: extend the group on the left, or create one
extendOrCreate(left, op, right) ==
    IF IsGroupOf(left, op)
    THEN Group(op, Append(left.children, right))
    ELSE Group(op, <<left, right>>)

Result(node, pos) == [node |-> node, pos |-> pos]

RECURSIVE parseOrExpression(_, _)
RECURSIVE orLoop(_, _)
RECURSIVE parseAndExpression(_, _)
RECURSIVE andLoop(_, _)
RECURSIVE parseTerm(_, _)

\* `left` after one iteration of a while loop that parsed the operand r
loopStep(left, op, r) == Result(extendOrCreate(left, op, r.node), r.pos)

\* the while loop of parseOrExpression, entered with l = (left, cursor)
orLoop(toks, l) ==
    IF current(toks, l.pos).type = "or"
    THEN orLoop(toks, loopStep(l.node, "or", parseAndExpression(toks, advance(toks, l.pos))))
    ELSE l

parseOrExpression(toks, pos) == orLoop(toks, parseAndExpression(toks, pos))

\* slip: the operand of `and` parsed as a whole or-expression
andLoop_orOperand(toks, l) ==
    IF current(toks, l.pos).type = "and"
    THEN andLoop(toks, loopStep(l.node, "and", parseOrExpression(toks, advance(toks, l.pos))))
    ELSE l

\* the while loop of parseAndExpression, entered with l = (left, cursor)
andLoop(toks, l) ==
    IF current(toks, l.pos).type = "and"
    THEN andLoop(toks, loopStep(l.node, "and", parseTerm(toks, advance(toks, l.pos))))
    ELSE l

parseAndExpression(toks, pos) == andLoop(toks, parseTerm(toks, pos))

\* slip: a parenthesised term that is not closed is given up
closeParen_required(toks, e) ==
    IF current(toks, e.pos).type = "rparen" THEN Result(e.node, advance(toks, e.pos))
    ELSE Result(Group("and", <<>>), e.pos)

\* slip: a parenthesised term that is not closed puts the cursor back by one
closeParen_rewind(toks, e) ==
    IF current(toks, e.pos).type = "rparen" THEN Result(e.node, advance(toks, e.pos))
    ELSE Result(e.node, e.pos - 1)

\* the end of a parenthesised term: consume `)` if it is there
closeParen(toks, e) ==
    IF current(toks, e.pos).type = "rparen" THEN Result(e.node, advance(toks, e.pos)) ELSE e

\* slip: the error case consumes the token it cannot use
parseTerm_consuming(toks, pos) ==
    IF current(toks, pos).type = "lparen"
    THEN closeParen(toks, parseOrExpression(toks, advance(toks, pos)))
    ELSE IF current(toks, pos).type = "filter"
    THEN Result(FilterLeaf(current(toks, pos).field, current(toks, pos).value,
                           current(toks, pos).isEmpty),
                advance(toks, pos))
    ELSE Result(Group("and", <<>>), advance(toks, pos))

parseTerm(toks, pos) ==
    IF current(toks, pos).type = "lparen"
    THEN closeParen(toks, parseOrExpression(toks, advance(toks, pos)))
    ELSE IF current(toks, pos).type = "filter"
    THEN Result(FilterLeaf(current(toks, pos).field, current(toks, pos).value,
                           current(toks, pos).isEmpty),
                advance(toks, pos))
    ELSE Result(Group("and", <<>>), pos)

\* flattenFilterTree: the leaves of a tree from left to right
RECURSIVE flattenFilterTree(_)
flattenFilterTree(node) ==
    IF node = None THEN <<>>
    ELSE IF node.type = "filter"
    THEN <<[field |-> node.field, value |-> node.value, isEmpty |-> node.isEmpty]>>
    ELSE Flatten([k \in DOMAIN node.children |-> flattenFilterTree(node.children[k])])

\* Parser.parse
parse(toks) ==
    IF isEof(toks, 1) THEN Result(None, 1)
    ELSE parseOrExpression(toks, 1)

(***************************************************************************)
(* Dates: a Date is [time |-> t], its time value counted in days of the    *)
(* local calendar since 1 January 1970 (the clause names days, never times *)
(* of day)                                                                 *)
(***************************************************************************)
Str_between == <<"b","e","t","w","e","e","n">>

DigitValue == [c \in {"0","1","2","3","4","5","6","7","8","9"} |->
                  CHOOSE n \in 0..9 : <<"0","1","2","3","4","5","6","7","8","9">>[n + 1] = c]
IsDigit(c) == c \in DOMAIN DigitValue

\* parseInt(text, 10) of a run of digits
RECURSIVE parseInt(_)
parseInt(ds) ==
    IF ds = <<>> THEN 0 ELSE 10 * parseInt(SubSeq(ds, 1, Len(ds) - 1)) + DigitValue[ds[Len(ds)]]

\* leap days up to the end of year y, and the days from the epoch to 1 January y
LeapDays(y) == (y \div 4) - (y \div 100) + (y \div 400)
IsLeapYear(y) == (y % 4 = 0 /\ y % 100 /= 0) \/ y % 400 = 0
DaysToYear(y) == 365 * (y - 1970) + LeapDays(y - 1) - LeapDays(1969)
DaysToMonth(y, m) ==
    <<0, 31, 59, 90, 120, 151, 181, 212, 243, 273, 304, 334>>[m + 1]
    + (IF m >= 2 /\ IsLeapYear(y) THEN 1 ELSE 0)

\* new Date(year, monthIndex, day): months and days out of range carry over
\* into the next (or previous) year and month
newDate(year, monthIndex, day) ==
    [time |-> DaysToYear(year + (monthIndex \div 12))
              + DaysToMonth(year + (monthIndex \div 12), monthIndex % 12) + day - 1]

\* dateStr.split('/')
RECURSIVE split(_, _)
split(str, part) ==
    IF str = <<>> THEN <<part>>
    ELSE IF Head(str) = "/" THEN <<part>> \o split(Tail(str), <<>>)
    ELSE split(Tail(str), Append(part, Head(str)))

\* the two-digit year rule of parseDate
pivotYear(year) == IF year < 100 THEN year + (IF year < 50 THEN 2000 ELSE 1900) ELSE year

dateOfParts(parts) ==
    IF Len(parts) /= 3 THEN Null
    ELSE newDate(pivotYear(parseInt(parts[3])), parseInt(parts[1]) - 1, parseInt(parts[2]))

parseDate(dateStr) == dateOfParts(split(dateStr, <<>>))

\* end (inclusive) of the longest run of at most n digits from j; j - 1 if none
RECURSIVE digitsEnd(_, _, _)
digitsEnd(q, j, n) ==
    IF n > 0 /\ j <= Len(q) /\ IsDigit(q[j]) THEN digitsEnd(q, j + 1, n - 1) ELSE j - 1

\* (\d{1,2}\/\d{1,2}\/\d{2,4}) at j: the index of its last character, or 0
yearEnd(y, e) == IF e >= y + 1 THEN e ELSE 0
dayEnd(q, d, e) ==
    IF e >= d /\ e + 1 <= Len(q) /\ q[e + 1] = "/"
    THEN yearEnd(e + 2, digitsEnd(q, e + 2, 4)) ELSE 0
monthEnd(q, j, e) ==
    IF e >= j /\ e + 1 <= Len(q) /\ q[e + 1] = "/"
    THEN dayEnd(q, e + 2, digitsEnd(q, e + 2, 2)) ELSE 0
dateEnd(q, j) == monthEnd(q, j, digitsEnd(q, j, 2))

\* /between\s+(date)\s+and\s+(date)/i tried at index i, piece by piece: None or
\* the match (its index, the index of its last character, groups 1 and 2)
secondDate(q, i, s1, e1, s3, e2) ==
    IF e2 > 0
    THEN [type |-> "match", index |-> i, end |-> e2,
          from |-> SubSeq(q, s1, e1), to |-> SubSeq(q, s3, e2)]
    ELSE None
afterAnd(q, i, s1, e1, k, s3) ==
    IF s3 > k THEN secondDate(q, i, s1, e1, s3, dateEnd(q, s3)) ELSE None
afterFirstDate(q, i, s1, e1, s2) ==
    IF s2 > e1 + 1 /\ lowerEqualsAt(q, s2, Str_and)
    THEN afterAnd(q, i, s1, e1, s2 + 3, skipSpaces(q, s2 + 3)) ELSE None
firstDate(q, i, s1, e1) ==
    IF e1 > 0 THEN afterFirstDate(q, i, s1, e1, skipSpaces(q, e1 + 1)) ELSE None
afterBetween(q, i, k, s1) ==
    IF s1 > k THEN firstDate(q, i, s1, dateEnd(q, s1)) ELSE None
betweenAt(q, i) ==
    IF lowerEqualsAt(q, i, Str_between)
    THEN afterBetween(q, i, i + 7, skipSpaces(q, i + 7)) ELSE None

\* query.match(...): the leftmost match
RECURSIVE dateRangeMatchFrom(_, _)
firstMatch(q, i, m) == IF m /= None THEN m ELSE dateRangeMatchFrom(q, i + 1)
dateRangeMatchFrom(q, i) == IF i > Len(q) THEN None ELSE firstMatch(q, i, betweenAt(q, i))
dateRangeMatch(q) == dateRangeMatchFrom(q, 1)

(***************************************************************************)
(* parseQuery                                                              *)
(***************************************************************************)
ParsedQuery(toks, r, range) ==
    [filterTree |-> r.node, tokens |-> toks, pos |-> r.pos, dateRange |-> range]
parseTokens(toks, range) == ParsedQuery(toks, parse(toks), range)

\* result.dateRange, set when both dates parse
DateRange(fromDate, toDate) ==
    IF fromDate /= Null /\ toDate /= Null THEN [from |-> fromDate, to |-> toDate] ELSE None

\* slip: the clause left in the query
removeMatch_keep(q, m) == trim(q)

\* query.replace(dateRangeMatch[0], '').trim()
removeMatch(q, m) == trim(SubSeq(q, 1, m.index - 1) \o SubSeq(q, m.end + 1, Len(q)))

\* the try block, with m the match of the date-range regex
parseWithRange(q, m) ==
    IF m /= None
    THEN parseTokens(tokenize(removeMatch(q, m)), DateRange(parseDate(m.from), parseDate(m.to)))
    ELSE parseTokens(tokenize(q), None)

parseQuery(query) ==
    IF trim(query) = <<>>
    THEN [filterTree |-> None, tokens |-> <<>>, pos |-> 0, dateRange |-> None]
    ELSE parseWithRange(query, dateRangeMatch(query))

(***************************************************************************)
(* Serialization: serializeFilterNode builds a plain object, JSON.stringify*)
(* writes it as text (here: its sequence of lexemes), JSON.parse reads the *)
(* text back on the server.                                                *)
(***************************************************************************)
RECURSIVE serializeFilterNode(_)
\* slip: the sentinel sent as the literal value, not re-encoded
serializeFilterNode_literal(node) ==
    IF node.type = "filter"
    THEN [type |-> "filter", field |-> node.field, value |-> node.value]
    ELSE IF node.type = "group"
    THEN [type |-> "group", operator |-> node.operator,
          children |-> [k \in DOMAIN node.children |-> serializeFilterNode(node.children[k])]]
    ELSE Null

serializeFilterNode(node) ==
    IF node.type = "filter"
    THEN [type |-> "filter", field |-> node.field,
          value |-> IF node.isEmpty THEN Str_emptyMarker ELSE node.value]
    ELSE IF node.type = "group"
    THEN [type |-> "group", operator |-> node.operator,
          children |-> [k \in DOMAIN node.children |-> serializeFilterNode(node.children[k])]]
    ELSE Null

\* JSON lexemes: punctuation, a property name, an enumerated word, a string
Punct(c) == [t |-> c, e |-> "", s |-> <<>>]
Key(k) == [t |-> "key", e |-> k, s |-> <<>>]
Word(w) == [t |-> "word", e |-> w, s |-> <<>>]
StrLit(cs) == [t |-> "string", e |-> "", s |-> cs]

RECURSIVE JsonStringify(_)
RECURSIVE JsonStringifyAll(_)
JsonStringify(obj) ==
    IF obj = Null THEN <<Word("null")>>
    ELSE IF obj.type = "filter"
    THEN <<Punct("{"), Key("type"), Word("filter"), Key("field"), StrLit(obj.field),
           Key("value"), StrLit(obj.value), Punct("}")>>
    ELSE <<Punct("{"), Key("type"), Word("group"), Key("operator"), Word(obj.operator),
           Key("children"), Punct("[")>> \o JsonStringifyAll(obj.children)
           \o <<Punct("]"), Punct("}")>>
JsonStringifyAll(objs) ==
    IF objs = <<>> THEN <<>> ELSE JsonStringify(Head(objs)) \o JsonStringifyAll(Tail(objs))

\* JSON.parse: [value, next lexeme]; an object is a function from its keys
RECURSIVE JsonParseValue(_, _)
RECURSIVE JsonParseMembers(_, _, _)
RECURSIVE JsonParseElements(_, _, _)
JsonParseValue(lx, p) ==
    IF lx[p].t = "{" THEN JsonParseMembers(lx, p + 1, <<>>)
    ELSE IF lx[p].t = "[" THEN JsonParseElements(lx, p + 1, <<>>)
    ELSE IF lx[p].t = "string" THEN [value |-> lx[p].s, next |-> p + 1]
    ELSE IF lx[p].e = "null" THEN [value |-> Null, next |-> p + 1]
    ELSE [value |-> lx[p].e, next |-> p + 1]
JsonParseMembers(lx, p, obj) ==
    IF lx[p].t = "}" THEN [value |-> obj, next |-> p + 1]
    ELSE LET v == JsonParseValue(lx, p + 1)
         IN  JsonParseMembers(lx, v.next, (lx[p].e :> v.value) @@ obj)
JsonParseElements(lx, p, arr) ==
    IF lx[p].t = "]" THEN [value |-> arr, next |-> p + 1]
    ELSE LET v == JsonParseValue(lx, p)
         IN  JsonParseElements(lx, v.next, Append(arr, v.value))

JsonParse(lx) == JsonParseValue(lx, 1).value

\* buildQueryString: the from_date and to_date parameters, None when they are
\* not appended; toISOString and the route's z.coerce.date() give the Date back
from_dateParam(parsed) == IF parsed.dateRange /= None THEN parsed.dateRange.from ELSE None
to_dateParam(parsed) == IF parsed.dateRange /= None THEN parsed.dateRange.to ELSE None

\* buildQueryString: the filter_expr parameter; <<>> when it is not appended
buildQueryString(parsed) ==
    IF parsed.filterTree /= None
    THEN JsonStringify(serializeFilterNode(parsed.filterTree))
    ELSE <<>>

(***************************************************************************)
(* The store: the SQLite tables the evaluator reads, each a sequence of    *)
(* rows in rowid order.  A NULL category_id is NullId; a nullable text     *)
(* column is Text(s) or NullText.                                          *)
(***************************************************************************)
NullId == 0
NullText == [null |-> TRUE, text |-> <<>>]
Text(s) == [null |-> FALSE, text |-> s]

Range(seq) == {seq[k] : k \in DOMAIN seq}
Includes(seq, x) == \E k \in DOMAIN seq : seq[k] = x

\* [...new Set(arr)] / Array.from(set): first occurrences, in insertion order
RECURSIVE Dedup(_, _)
Dedup(seq, seen) ==
    IF seq = <<>> THEN <<>>
    ELSE IF Head(seq) \in seen THEN Dedup(Tail(seq), seen)
    ELSE <<Head(seq)>> \o Dedup(Tail(seq), seen \cup {Head(seq)})

\* SQLite's LIKE: % is any run, _ any one character, ASCII letters fold case
RECURSIVE likeMatch(_, _)
likeMatch(p, t) ==
    IF p = <<>> THEN t = <<>>
    ELSE IF Head(p) = "%"
    THEN likeMatch(Tail(p), t) \/ (t /= <<>> /\ likeMatch(p, Tail(t)))
    ELSE IF Head(p) = "_" THEN t /= <<>> /\ likeMatch(Tail(p), Tail(t))
    ELSE t /= <<>> /\ toLowerChar(Head(p)) = toLowerChar(Head(t)) /\ likeMatch(Tail(p), Tail(t))

\* like(column, `%${v}%`) on a NOT NULL column / on a nullable one
like(text, v) == likeMatch(<<"%">> \o v \o <<"%">>, text)
likeNullable(col, v) == ~col.null /\ like(col.text, v)

VARIABLES
    pc,             \* "input" (query typed), "sent" (request built), "done" (response computed)
    query,          \* the raw filter string of the text input
    tokens,         \* the Tokenizer's token array
    pos,            \* the Tokenizer's cursor when parse() returned (1-based)
    filterTree,     \* ParsedQuery.filterTree, or None
    dateRange,      \* ParsedQuery.dateRange, or None
    from_date,      \* the from_date request parameter, or None
    to_date,        \* the to_date request parameter, or None
    filter_expr,    \* the filter_expr request parameter (JSON lexemes), <<>> when absent
    line_level_filter, \* the line_level_filter request parameter
    db,             \* the store
    response        \* findAll's result, or None

\* the backup daemon (scripts/backup-lib.ts) and the files it works on
VARIABLES
    database,       \* the content of the file at dbPath after a checkpoint, or None when missing
    backupDir,      \* the files of backupDir: name -> [mtime, content]
    hashFile,       \* the content of backupDir/.last-backup-hash, or None when absent
    clock,          \* the system clock, in ticks
    maxBackups,     \* BackupConfig.maxBackups
    before,         \* the files as the run of performBackup that just returned found them, or None
    backupResult    \* the BackupResult just returned, or None

requestVars == <<pc, query, tokens, pos, filterTree, dateRange, from_date, to_date, filter_expr,
                 line_level_filter, db, response>>
backupVars == <<database, backupDir, hashFile, clock, maxBackups, before, backupResult>>

vars == <<requestVars, backupVars>>

(***************************************************************************)
(* Evaluator (TransactionRepository), reading the store db                 *)
(***************************************************************************)
\* node.key === word, for a property of a JSON-decoded object that may be absent
Is(node, key, word) == key \in DOMAIN node /\ node[key] = word
\* node.value || ''
ValueOrEmpty(node) == IF "value" \in DOMAIN node THEN node.value ELSE <<>>

Col(rows, c) == [k \in DOMAIN rows |-> rows[k][c]]

\* slip: the transactions without a categorised line
categoryEmptyIds_noCategorised ==
    LET linesWithCategory == SelectSeq(db.transactionLines, LAMBDA l : l.category_id /= NullId)
    IN  SelectSeq(Col(db.transactions, "id"),
                  LAMBDA id : id \notin Range(Col(linesWithCategory, "transaction_id")))

\* transactions with a line whose category_id IS NULL
categoryEmptyIds ==
    LET linesWithoutCategory == SelectSeq(db.transactionLines, LAMBDA l : l.category_id = NullId)
    IN  Dedup(Col(linesWithoutCategory, "transaction_id"), {})

\* slip: the evaluator compares the category name for equality
categoryNamedIds_exact(categoryValue) ==
    LET matchingCategories == SelectSeq(db.categories, LAMBDA c : c.name = categoryValue)
        categoryIds == Col(matchingCategories, "id")
        linesWithCategory == SelectSeq(db.transactionLines,
                                LAMBDA l : l.category_id /= NullId /\ Includes(categoryIds, l.category_id))
    IN  Dedup(Col(linesWithCategory, "transaction_id"), {})

\* transactions with a line in a category whose name is LIKE %value%
categoryNamedIds(categoryValue) ==
    LET matchingCategories == SelectSeq(db.categories, LAMBDA c : like(c.name, categoryValue))
        categoryIds == SelectSeq(Col(matchingCategories, "id"), LAMBDA id : id /= NullId)
        linesWithCategory == SelectSeq(db.transactionLines,
                                LAMBDA l : l.category_id /= NullId /\ Includes(categoryIds, l.category_id))
    IN  IF matchingCategories = <<>> THEN <<>>
        ELSE IF categoryIds = <<>> THEN <<>>
        ELSE Dedup(Col(linesWithCategory, "transaction_id"), {})

getCategoryTransactionIds(categoryValue) ==
    IF categoryValue = Str_emptyMarker THEN categoryEmptyIds
    ELSE categoryNamedIds(categoryValue)

\* transactions without a row in transaction_tags
tagEmptyIds ==
    LET allTransactions == db.transactions
        txIdsWithTags == Range(Col(db.transactionTags, "transaction_id"))
    IN  SelectSeq(Col(allTransactions, "id"), LAMBDA id : id \notin txIdsWithTags)

\* transactions with a tag whose name is LIKE %value%
tagNamedIds(tagValue) ==
    LET matchingTags == SelectSeq(db.tags, LAMBDA t : like(t.name, tagValue))
        txWithTag == SelectSeq(db.transactionTags,
                        LAMBDA r : Includes(Col(matchingTags, "id"), r.tag_id))
    IN  IF matchingTags = <<>> THEN <<>>
        ELSE Dedup(Col(txWithTag, "transaction_id"), {})

getTagTransactionIds(tagValue) ==
    IF tagValue = Str_emptyMarker THEN tagEmptyIds
    ELSE tagNamedIds(tagValue)

getAccountTransactionIds(accountValue) ==
    LET matchingAccounts == SelectSeq(db.accounts, LAMBDA a : like(a.name, accountValue))
        txWithAccount == SelectSeq(db.transactions,
                            LAMBDA t : Includes(Col(matchingAccounts, "id"), t.account_id))
    IN  IF matchingAccounts = <<>> THEN <<>> ELSE Col(txWithAccount, "id")

\* transactions whose counterparty IS NULL
counterpartyEmptyIds ==
    Col(SelectSeq(db.transactions, LAMBDA t : t.counterparty.null), "id")

\* transactions whose counterparty is LIKE %value%
counterpartyNamedIds(counterpartyValue) ==
    Col(SelectSeq(db.transactions, LAMBDA t : likeNullable(t.counterparty, counterpartyValue)), "id")

getCounterpartyTransactionIds(counterpartyValue) ==
    IF counterpartyValue = Str_emptyMarker THEN counterpartyEmptyIds
    ELSE counterpartyNamedIds(counterpartyValue)

\* slip: a leaf of an unknown field matches every transaction
evaluateFilterNode_defaultAll(node) ==
    LET field == IF "field" \in DOMAIN node THEN node.field ELSE <<>>
    IN  IF field = Str_category THEN getCategoryTransactionIds(ValueOrEmpty(node))
        ELSE IF field = Str_tag THEN getTagTransactionIds(ValueOrEmpty(node))
        ELSE IF field = Str_account THEN getAccountTransactionIds(ValueOrEmpty(node))
        ELSE IF field = Str_counterparty THEN getCounterpartyTransactionIds(ValueOrEmpty(node))
        ELSE Col(db.transactions, "id")

evaluateFilterNode(node) ==
    LET field == IF "field" \in DOMAIN node THEN node.field ELSE <<>>
    IN  IF field = Str_category THEN getCategoryTransactionIds(ValueOrEmpty(node))
        ELSE IF field = Str_tag THEN getTagTransactionIds(ValueOrEmpty(node))
        ELSE IF field = Str_account THEN getAccountTransactionIds(ValueOrEmpty(node))
        ELSE IF field = Str_counterparty THEN getCounterpartyTransactionIds(ValueOrEmpty(node))
        ELSE <<>>

\* the union branch: every id of every child, added to a Set in order
unionAll(childResults) == Dedup(Flatten(childResults), {})

\* the intersection branch: the first child's ids, filtered by each later child
RECURSIVE intersectFrom(_, _, _)
intersectFrom(result, childResults, i) ==
    IF i > Len(childResults) THEN result
    ELSE intersectFrom(SelectSeq(result, LAMBDA id : id \in Range(childResults[i])),
                       childResults, i + 1)
\* slip: the loop starts one child too late
intersectAll_skipSecond(childResults) ==
    IF Len(childResults) = 0 THEN <<>> ELSE intersectFrom(childResults[1], childResults, 3)

intersectAll(childResults) ==
    IF Len(childResults) = 0 THEN <<>> ELSE intersectFrom(childResults[1], childResults, 2)

\* `node.children && node.children.length > 0`
HasChildren(node) ==
    /\ "children" \in DOMAIN node
    /\ Len(node.children) > 0

RECURSIVE evaluateFilterTree(_)
evaluateFilterTree(node) ==
    IF Is(node, "type", "filter") THEN evaluateFilterNode(node)
    ELSE IF Is(node, "type", "group") /\ HasChildren(node)
    THEN LET childResults == [k \in DOMAIN node.children |-> evaluateFilterTree(node.children[k])]
         IN  IF Is(node, "operator", "or") THEN unionAll(childResults)
             ELSE intersectAll(childResults)
    ELSE <<>>

\* slip: the two rules of the category matcher exchanged for the marker
lineMatchesCategoryFilter_inverted(line, categoryValue) ==
    IF categoryValue = Str_emptyMarker
    THEN line.category_id /= NullId
    ELSE LET matchingCategories == SelectSeq(db.categories, LAMBDA c : like(c.name, categoryValue))
             categoryIds == Col(matchingCategories, "id")
         IN  line.category_id /= NullId /\ Includes(categoryIds, line.category_id)

lineMatchesCategoryFilter(line, categoryValue) ==
    IF categoryValue = Str_emptyMarker
    THEN line.category_id = NullId
    ELSE LET matchingCategories == SelectSeq(db.categories, LAMBDA c : like(c.name, categoryValue))
             categoryIds == Col(matchingCategories, "id")
         IN  line.category_id /= NullId /\ Includes(categoryIds, line.category_id)

\* childResults.some(r => r)
some(childResults) == \E k \in DOMAIN childResults : childResults[k]

\* slip: every answered like some
every_some(childResults) == \E k \in DOMAIN childResults : childResults[k]

\* childResults.every(r => r)
every(childResults) == \A k \in DOMAIN childResults : childResults[k]

RECURSIVE lineMatchesFilter(_, _)
lineMatchesFilter(line, node) ==
    IF Is(node, "type", "filter")
    THEN IF Is(node, "field", Str_category)
         THEN lineMatchesCategoryFilter(line, ValueOrEmpty(node))
         ELSE TRUE
    ELSE IF Is(node, "type", "group") /\ HasChildren(node)
    THEN LET childResults == [k \in DOMAIN node.children |-> lineMatchesFilter(line, node.children[k])]
         IN  IF Is(node, "operator", "or") THEN some(childResults) ELSE every(childResults)
    ELSE FALSE

\* the defaults of findAll's page and limit
DefaultPage == 1
DefaultLimit == 50

\* ORDER BY transaction_date DESC
RECURSIVE orderByDateDesc(_)
orderByDateDesc(rows) ==
    IF rows = <<>> THEN <<>>
    ELSE LET k == CHOOSE x \in DOMAIN rows :
                     \A y \in DOMAIN rows :
                        \/ rows[x].transaction_date > rows[y].transaction_date
                        \/ (rows[x].transaction_date = rows[y].transaction_date /\ x <= y)
         IN  <<rows[k]>> \o orderByDateDesc(SubSeq(rows, 1, k - 1) \o SubSeq(rows, k + 1, Len(rows)))

\* LIMIT limit OFFSET offset
limitOffset(rows, limit, offset) ==
    IF offset >= Len(rows) THEN <<>>
    ELSE SubSeq(rows, offset + 1, IF offset + limit <= Len(rows) THEN offset + limit ELSE Len(rows))

EmptyPage == [items |-> <<>>, total |-> 0]

\* the lines fetched for one transaction of the page, filtered by the line
\* matcher when line_level_filter is set and there is a filter tree
linesOf(t, tree, filterLines) ==
    IF filterLines
    THEN SelectSeq(SelectSeq(db.transactionLines, LAMBDA l : l.transaction_id = t.id),
                   LAMBDA l : lineMatchesFilter(l, tree))
    ELSE SelectSeq(db.transactionLines, LAMBDA l : l.transaction_id = t.id)

\* slip: a transaction none of whose lines is kept is left out of the page
itemsWithLines_dropEmpty(items, tree, filterLines) ==
    SelectSeq([k \in DOMAIN items |-> [id |-> items[k].id, lines |-> linesOf(items[k], tree, filterLines)]],
              LAMBDA item : item.lines /= <<>>)

itemsWithLines(items, tree, filterLines) ==
    [k \in DOMAIN items |-> [id |-> items[k].id, lines |-> linesOf(items[k], tree, filterLines)]]

\* the page of the transactions that satisfy the WHERE clause, and their count
pageOf(matching, tree, filterLines) ==
    [items |-> itemsWithLines(
                  limitOffset(orderByDateDesc(matching), DefaultLimit, (DefaultPage - 1) * DefaultLimit),
                  tree, filterLines),
     total |-> Len(matching)]

\* the conditions on transaction_date: gte(from_date) and lte(to_date)
dateConditions(t, filter) ==
    /\ filter.from_date /= None => t.transaction_date >= filter.from_date.time
    /\ filter.to_date /= None => t.transaction_date <= filter.to_date.time

\* `if (filterTree)` taken, with filteredTransactionIds = evaluateFilterTree(filterTree)
findFiltered(tree, filter, filteredTransactionIds) ==
    IF Len(filteredTransactionIds) = 0 THEN EmptyPage
    ELSE pageOf(SelectSeq(db.transactions,
                          LAMBDA t : dateConditions(t, filter) /\ Includes(filteredTransactionIds, t.id)),
                tree, filter.line_level_filter)

\* findAll once filter_expr is decoded; `if (filterTree)` fails for undefined and null
findAllTree(tree, filter) ==
    IF tree = None \/ tree = Null
    THEN pageOf(SelectSeq(db.transactions, LAMBDA t : dateConditions(t, filter)), tree, FALSE)
    ELSE findFiltered(tree, filter, evaluateFilterTree(tree))

\* the TransactionFilter of a request with these four parameters (no status, no
\* legacy category/tag/account, page, limit, sort and order at their defaults)
TransactionFilter(expr, lineLevel, from, to) ==
    [filter_expr |-> expr, line_level_filter |-> lineLevel, from_date |-> from, to_date |-> to]

\* TransactionRepository.findAll
findAll(filter) ==
    findAllTree(IF filter.filter_expr /= <<>> THEN JsonParse(filter.filter_expr) ELSE None, filter)

(***************************************************************************)
(* Stores                                                                  *)
(***************************************************************************)
Str_Food == <<"F","o","o","d">>
Str_Travel == <<"T","r","a","v","e","l">>
Str_Cash == <<"C","a","s","h">>
Str_amazon == <<"a","m","a","z","o","n">>

MaxTx == 2          \* transactions in a store of the family

\* all sequences over S of length at most n
SeqsUpTo(S, n) == UNION {[1..k -> S] : k \in 0..n}

\* the rows of transaction_lines for per-transaction category references
RECURSIVE lineRows(_, _, _)
lineRows(lineCats, t, nextId) ==
    IF t > Len(lineCats) THEN <<>>
    ELSE [k \in DOMAIN lineCats[t] |->
            [id |-> nextId + k - 1, transaction_id |-> t, category_id |-> lineCats[t][k]]]
         \o lineRows(lineCats, t + 1, nextId + Len(lineCats[t]))

\* the rows of transaction_tags, by transaction
RECURSIVE tagRows(_, _)
tagRows(tagged, t) ==
    IF t > Len(tagged) THEN <<>>
    ELSE (IF tagged[t] THEN <<[transaction_id |-> t, tag_id |-> 1]>> ELSE <<>>)
         \o tagRows(tagged, t + 1)

\* a store with one category (Food), one tag (Travel), one account (Cash) and
\* transactions 1..n; transaction t has the lines lineCats[t], the tag iff
\* tagged[t], the counterparty cps[t]; later transactions are more recent
MkStore(lineCats, tagged, cps) ==
    [categories |-> <<[id |-> 1, name |-> Str_Food]>>,
     tags |-> <<[id |-> 1, name |-> Str_Travel]>>,
     accounts |-> <<[id |-> 1, name |-> Str_Cash]>>,
     transactions |-> [t \in DOMAIN lineCats |->
                         [id |-> t, account_id |-> 1, counterparty |-> cps[t],
                          transaction_date |-> t]],
     transactionLines |-> lineRows(lineCats, 1, 1),
     transactionTags |-> tagRows(tagged, 1)]

\* the stores of MaxTx single-line transactions: each line categorised (Food)
\* or not, each transaction tagged (Travel) or not; odd ones name a counterparty
StoreFamily ==
    {MkStore(lc, tg, [t \in 1..MaxTx |-> IF t % 2 = 1 THEN Text(Str_amazon) ELSE NullText]) :
        lc \in [1..MaxTx -> {<<NullId>>, <<1>>}],
        tg \in [1..MaxTx -> BOOLEAN]}

\* transactions 1, 2, 3 where 1 and 2 have category Food and 2 and 3 have tag Travel
FixtureStore ==
    MkStore(<<<<1>>, <<1>>, <<NullId>>>>, <<FALSE, TRUE, TRUE>>,
            <<Text(Str_amazon), NullText, Text(Str_Cash)>>)
\* a transaction with a categorised and an uncategorised line, one without lines
SplitStore ==
    MkStore(<<<<NullId, 1>>, <<>>>>, <<TRUE, FALSE>>, <<NullText, NullText>>)

SampleStores == {FixtureStore, SplitStore}

\* the fixture with transaction 1 on 31 December 2023, 2 on 1 January 2024 and
\* 3 on 31 January 2024
DatedStore ==
    [FixtureStore EXCEPT !.transactions =
        [t \in 1..3 |->
            [FixtureStore.transactions[t] EXCEPT !.transaction_date =
                <<newDate(2023, 11, 31).time, newDate(2024, 0, 1).time, newDate(2024, 0, 31).time>>[t]]]]

(***************************************************************************)
(* Inputs                                                                  *)
(***************************************************************************)
MaxPieces == 5      \* lexemes in a typed query
MaxChunks == 4      \* character chunks in a typed query

Sp == <<" ">>
Lex_tagEmpty == Str_tag \o <<":">> \o Str_dash
Lex_catFood == Str_category \o <<":">> \o Str_Food
Lex_tagTravel == Str_tag \o <<":">> \o Str_Travel

\* the filters a user types in the queries of Spec
Filters == {Lex_tagEmpty, Lex_catFood}

\* lexemes, each followed by a blank: every token sequence can be typed
Lexemes == {<<"(">> \o Sp, <<")">> \o Sp, Str_and \o Sp, Str_or \o Sp}
           \cup {f \o Sp : f \in Filters}

FreeQueries == {Flatten(ps) : ps \in SeqsUpTo(Lexemes, MaxPieces)}

\* pieces of text typed with nothing between them
Chunks == {Str_tag, Str_category, Str_counterparty, <<":">>, Str_Food, Str_dash,
           Str_emptyMarker, <<"(">>, <<")">>, Sp, Str_and, Str_or}

ChunkQueries == {Flatten(cs) : cs \in SeqsUpTo(Chunks, MaxChunks)}

\* a filter typed as field:value
TypedFilters == {[field |-> Str_category, value |-> Str_Food],
                 [field |-> Str_tag, value |-> Str_dash]}
TypedText(f) == f.field \o <<":">> \o f.value
TypedLeaf(f) == FilterLeaf(f.field, f.value, f.value = Str_dash)

\* `a and (b or c)`
GroupedQuery(a, b, c) ==
    TypedText(a) \o Sp \o Str_and \o Sp \o <<"(">> \o TypedText(b) \o Sp \o Str_or
    \o Sp \o TypedText(c) \o <<")">>
GroupedQueries == {GroupedQuery(a, b, c) : a \in TypedFilters, b \in TypedFilters, c \in TypedFilters}

\* `field:value` for each field the user interface documents
AllFields == {Str_category, Str_tag, Str_account, Str_counterparty}
FieldQueries == {f \o <<":">> \o v : f \in AllFields, v \in {Str_Food, Str_dash}}

\* words that begin with a keyword, keywords without a blank after them, and
\* keywords in capitals
Str_value == <<"v","a","l","u","e">>
KeywordQueries ==
    {<<"a","n","d","r","o","i","d">> \o <<":">> \o Str_value,
     <<"o","r","g","a","n","i","z","a","t","i","o","n">> \o <<":">> \o Str_value,
     Str_and \o <<"(">>, Str_or \o <<")">>, Str_and \o Lex_catFood, Str_or \o Lex_tagEmpty,
     <<"A","N","D">>, <<"O","r">>, <<"a","n","d">>,
     Lex_catFood \o Sp \o Str_and \o Lex_tagEmpty,
     Lex_catFood \o Sp \o <<"A","N","D">> \o Sp \o Lex_tagEmpty,
     Lex_catFood \o Sp \o <<"o","R">> \o Sp \o Lex_tagEmpty,
     Lex_tagEmpty \o Sp \o Str_or, Lex_tagEmpty \o Sp \o Str_and \o Sp}

\* a field name or keyword as a user may capitalise it: as is, its first letter
\* in capitals, all in capitals
UpperOf == [c \in {LowerChars[k] : k \in DOMAIN LowerChars} |->
               UpperChars[CHOOSE k \in DOMAIN LowerChars : LowerChars[k] = c]]
toUpperCase(s) == [k \in DOMAIN s |-> IF s[k] \in DOMAIN UpperOf THEN UpperOf[s[k]] ELSE s[k]]
Capitalised(s) == toUpperCase(SubSeq(s, 1, 1)) \o SubSeq(s, 2, Len(s))
CaseVariants(w) == {w, Capitalised(w), toUpperCase(w)}

\* `a op b`, a and b filters with an unquoted value, the field names and the
\* keyword in any of their capitalisations
Str_trip == <<"t","r","i","p">>
CaseFilters == {[field |-> Str_category, value |-> Str_Food],
                [field |-> Str_tag, value |-> Str_trip]}
CaseQuery(fa, a, op, fb, b) ==
    fa \o <<":">> \o a.value \o Sp \o op \o Sp \o fb \o <<":">> \o b.value
CaseQueries ==
    {CaseQuery(fa, a, op, fb, b) :
        fa \in UNION {CaseVariants(a.field) : a \in CaseFilters},
        a \in CaseFilters,
        op \in CaseVariants(Str_and) \cup CaseVariants(Str_or),
        fb \in UNION {CaseVariants(b.field) : b \in CaseFilters},
        b \in CaseFilters}

\* `field:"text"` with blanks and keywords inside the quotes, alone and after
\* another filter
QuotedTexts == {<<"O","f","f","i","c","e"," ","S","u","p","p","l","i","e","s">>, <<"a"," ","a","n","d"," ","b">>, <<"x"," ","o","r"," ","y">>, <<"a","n","d"," ">>, Sp}
Quoted(f, v) == f \o <<":", "\"">> \o v \o <<"\"">>
QuotedQueries ==
    {Quoted(RegexFields[k], v) : k \in DOMAIN RegexFields, v \in QuotedTexts}
    \cup {Lex_tagEmpty \o Sp \o Str_and \o Sp \o Quoted(Str_category, v) : v \in QuotedTexts}

\* `field:"a""b"`: a quoted value with a doubled quote inside
EscapedParts == {<<"S","a","y">>, <<"h","i"," ","a","n","d">>, <<"o","r"," ","b">>}
Escaped(f, a, b) == f \o <<":", "\"">> \o a \o <<"\"", "\"">> \o b \o <<"\"">>
EscapedQueries ==
    {Escaped(RegexFields[k], a, b) : k \in DOMAIN RegexFields, a \in EscapedParts, b \in EscapedParts}

\* well-formed expressions typed with a blank after every lexeme: a filter,
\* chains of two and three filters, and a chain with one parenthesised pair
Ops == {Str_and \o Sp, Str_or \o Sp}
Operands == {f \o Sp : f \in Filters}
Pairs == {a \o op \o b : a \in Operands, op \in Ops, b \in Operands}
WellFormed ==
    Operands \cup Pairs
    \cup {p \o op \o c : p \in Pairs, op \in Ops, c \in Operands}
    \cup {<<"(">> \o Sp \o p \o <<")">> \o Sp \o op \o c : p \in Pairs, op \in Ops, c \in Operands}
    \cup {a \o op \o <<"(">> \o Sp \o p \o <<")">> \o Sp : a \in Operands, op \in Ops, p \in Pairs}

\* `( E` and `( E )`
Unclosed(E) == <<"(">> \o Sp \o E
Closed(E) == <<"(">> \o Sp \o E \o <<")">> \o Sp
UnclosedQueries == {Unclosed(E) : E \in WellFormed} \cup {Closed(E) : E \in WellFormed}

\* dates as typed, with the day of the calendar they name
TypedDates == {[text |-> <<"1","/","1","/","2","4">>, year |-> 2024, month |-> 1, day |-> 1],
               [text |-> <<"1","/","3","1","/","2","4">>, year |-> 2024, month |-> 1, day |-> 31],
               [text |-> <<"1","2","/","3","1","/","9","9">>, year |-> 1999, month |-> 12, day |-> 31],
               [text |-> <<"2","/","2","9","/","2","0","2","4">>, year |-> 2024, month |-> 2, day |-> 29],
               [text |-> <<"0","1","/","0","5","/","4","9">>, year |-> 2049, month |-> 1, day |-> 5],
               [text |-> <<"3","/","1","/","5","0">>, year |-> 1950, month |-> 3, day |-> 1]}
\* dates that name no day of the calendar
OverflowingDates == {[text |-> <<"2","/","3","0","/","2","4">>, year |-> 2024, month |-> 2, day |-> 30], [text |-> <<"1","3","/","0","/","2","0","2","3">>, year |-> 2023, month |-> 13, day |-> 0]}

\* text before and after a date-range clause
BeforeClause == {<<>>, Lex_catFood \o Sp, Lex_tagEmpty \o Sp \o Str_and \o Sp}
AfterClause == {<<>>, Sp \o Sp \o Lex_tagEmpty, Sp \o Str_or \o Sp \o Lex_catFood}
ClauseWords == {[between |-> Str_between, and |-> Str_and],
                [between |-> toUpperCase(Str_between), and |-> toUpperCase(Str_and)]}

\* `... between <d1> and <d2> ...`
DateQuery(pre, w, d1, d2, post) ==
    pre \o w.between \o Sp \o d1 \o Sp \o w.and \o Sp \o Sp \o d2 \o post
\* strings the date-range regex does not match
UnmatchedDateQueries ==
    {<<"b","e","t","w","e","e","n"," ","1","/","1","/","2","4"," ","a","n","d">>, <<"b","e","t","w","e","e","n","1","/","1","/","2","4"," ","a","n","d"," ","1","/","3","1","/","2","4">>,
     <<"b","e","t","w","e","e","n"," ","1","/","1","/","2"," ","a","n","d"," ","1","/","3","1","/","2","4">>, <<"b","e","t","w","e","e","n"," ","1","/","1","/","2","0","2","4","5"," ","a","n","d"," ","1","/","3","1","/","2","4">>,
     <<"b","e","t","w","e","e","n"," ","1","/","1","/","2","4"," ","o","r"," ","1","/","3","1","/","2","4">>, <<"b","e","t","w","e","e","n"," ","1","/","1","/","2","4"," ","a","n","d"," ","1","/","3","1">>}
DateQueries ==
    {DateQuery(pre, w, d1.text, d2.text, post) :
        pre \in BeforeClause, w \in ClauseWords,
        d1 \in TypedDates \cup OverflowingDates, d2 \in TypedDates \cup OverflowingDates,
        post \in AfterClause}
    \cup UnmatchedDateQueries

CharQueries == ChunkQueries \cup GroupedQueries \cup FieldQueries

MaxWords == 3       \* pieces in a query of keywords typed against other text

\* keywords in several capitalisations and what may stand directly before or
\* after them
WordPieces == {Str_and, Str_or, toUpperCase(Str_and), Capitalised(Str_or), Sp, <<"(">>,
               <<"x">>, Lex_tagEmpty}
WordQueries == {Flatten(ws) : ws \in SeqsUpTo(WordPieces, MaxWords)}

TokenizerQueries ==
    WordQueries \cup KeywordQueries \cup CaseQueries \cup QuotedQueries \cup EscapedQueries

MaxShort == 2       \* lexemes in a query evaluated against the store family
MaxChildren == 2    \* children of a group in a request sent to the API directly

ShortQueries == {Flatten(ps) : ps \in SeqsUpTo(Lexemes, MaxShort)}

Stores == StoreFamily \cup SampleStores

\* filter_expr objects a client of the API can send: leaves, groups of leaves,
\* and groups holding one such group alone or beside a leaf
WireLeaf(f, v) == [type |-> "filter", field |-> f, value |-> v]
WireGroup(op, ch) == [type |-> "group", operator |-> op, children |-> ch]
WireLeaves == {WireLeaf(Str_category, Str_Food), WireLeaf(Str_tag, Str_Travel),
               WireLeaf(Str_tag, Str_emptyMarker)}
WireFlatGroups == {WireGroup(op, ch) : op \in {"and", "or"}, ch \in SeqsUpTo(WireLeaves, MaxChildren)}
WireNestedGroups ==
    {WireGroup(op, ch) : op \in {"and", "or"},
        ch \in UNION {{<<g>>, <<g, l>>, <<l, g>>} : g \in WireFlatGroups, l \in WireLeaves}}
WireTrees == WireLeaves \cup WireFlatGroups \cup WireNestedGroups

\* leaves of every field, with values in another case, a part of a name, a
\* name no row has, and the marker; and the category leaves beside another leaf
Str_food == <<"f","o","o","d">>
Str_oo == <<"o","o">>
CategoryLeaves == {WireLeaf(Str_category, v) : v \in {Str_Food, Str_food, Str_oo, Str_Travel, Str_emptyMarker}}
ProbeLeaves ==
    CategoryLeaves
    \cup {WireLeaf(Str_account, Str_Cash), WireLeaf(Str_account, Str_Food),
          WireLeaf(Str_counterparty, Str_amazon), WireLeaf(Str_counterparty, Str_emptyMarker),
          WireLeaf(Str_tag, Str_Food)}
ProbeTrees ==
    ProbeLeaves
    \cup {WireGroup(op, <<c, l>>) : op \in {"and", "or"}, c \in CategoryLeaves,
                                   l \in CategoryLeaves \cup WireLeaves}

\* groups holding a group of two leaves, or a group without children, beside a leaf
NestedProbes ==
    {WireGroup(op, <<g, l>>) :
        op \in {"and", "or"},
        g \in {WireGroup(o, ch) : o \in {"and", "or"},
                                  ch \in {<<>>} \cup {<<a, b>> : a \in WireLeaves, b \in WireLeaves}},
        l \in {WireLeaf(Str_category, Str_Food), WireLeaf(Str_category, Str_emptyMarker),
               WireLeaf(Str_tag, Str_Travel)}}

\* the trees sent to the line matcher
LineTrees == ProbeTrees \cup WireFlatGroups \cup NestedProbes

\* the JSON text of an object with some of the properties of a FilterNode
RECURSIVE WireJson(_)
RECURSIVE WireJsonAll(_)
WireJson(node) ==
    <<Punct("{")>>
    \o (IF "type" \in DOMAIN node THEN <<Key("type"), Word(node.type)>> ELSE <<>>)
    \o (IF "field" \in DOMAIN node THEN <<Key("field"), StrLit(node.field)>> ELSE <<>>)
    \o (IF "value" \in DOMAIN node THEN <<Key("value"), StrLit(node.value)>> ELSE <<>>)
    \o (IF "operator" \in DOMAIN node THEN <<Key("operator"), Word(node.operator)>> ELSE <<>>)
    \o (IF "children" \in DOMAIN node
        THEN <<Key("children"), Punct("[")>> \o WireJsonAll(node.children) \o <<Punct("]")>>
        ELSE <<>>)
    \o <<Punct("}")>>
WireJsonAll(nodes) ==
    IF nodes = <<>> THEN <<>> ELSE WireJson(Head(nodes)) \o WireJsonAll(Tail(nodes))

\* nodes the types do not allow but JSON.parse lets through: groups without
\* children or without a children property, a node of another type or of no
\* type, a leaf of a field the evaluator does not know
Str_payee == <<"p","a","y","e","e">>
VoidNodes ==
    {WireGroup(op, <<>>) : op \in {"and", "or"}}
    \cup {[type |-> "group", operator |-> op] : op \in {"and", "or"}}
    \cup {[type |-> "range", field |-> Str_category, value |-> Str_Food],
          [field |-> Str_category, value |-> Str_Food],
          WireLeaf(Str_payee, Str_amazon)}
\* such nodes alone and beside a leaf in a group
MalformedTrees ==
    VoidNodes
    \cup WireLeaves
    \cup {WireGroup(op, ch) : op \in {"and", "or"},
             ch \in UNION {{<<v, l>>, <<l, v>>} : v \in VoidNodes, l \in WireLeaves}}
    \cup {WireGroup("or", <<l, WireGroup("and", <<l, v>>)>>) : v \in VoidNodes, l \in WireLeaves}

(***************************************************************************)
(* The backup daemon (scripts/backup-lib.ts, scripts/backup-daemon.ts)     *)
(***************************************************************************)
TicksPerSecond == 2     \* readings of the clock within one second of a timestamp
MaxClock == 4           \* the clock stops here
MaxContent == 2         \* distinct contents of the database
MaxKeep == 2            \* largest BACKUP_MAX_BACKUPS set in the environment

\* parseInt(process.env.BACKUP_MAX_BACKUPS || '12', 10)
Str_12 == <<"1","2">>
maxBackupsOf(env) == parseInt(IF env = <<>> THEN Str_12 ELSE env)

\* the values of BACKUP_MAX_BACKUPS: unset, 0, 1, ..., MaxKeep
Digits == <<"0","1","2","3","4","5","6","7","8","9">>
Environments == {<<>>} \cup {<<Digits[n + 1]>> : n \in 0..MaxKeep}

\* the configurations main() starts the schedule with: maxBackups < 1 exits
BackupConfigs == {m \in {maxBackupsOf(env) : env \in Environments} : ~(m < 1)}

\* accounting-<timestamp>.db and its temporary copy
BackupName(timestamp) == [timestamp |-> timestamp, ext |-> "db"]
TempName(timestamp) == [timestamp |-> timestamp, ext |-> "db.tmp"]
File(mtime, content) == [mtime |-> mtime, content |-> content]

\* the SHA-256 of a file's bytes (collisions are not modelled)
calculateFileHash(content) == [sha256 |-> content]

\* PRAGMA wal_checkpoint(TRUNCATE): the frames of the WAL go to the main file
checkpointWAL(dbFile) ==
    IF dbFile.wal = <<>> THEN dbFile ELSE [main |-> dbFile.wal[1], wal |-> <<>>]

\* new Date().toISOString() cut at the seconds
timestampOf(now) == now \div TicksPerSecond

\* /^accounting-\d{4}-\d{2}-\d{2}-\d{2}-\d{2}-\d{2}\.db$/
backupPattern(name) == name.ext = "db"

\* the names of a directory in the order of their characters
NameOrder(name) == 2 * name.timestamp + (IF name.ext = "db" THEN 0 ELSE 1)
RECURSIVE readdirSync(_)
readdirSync(names) ==
    IF names = {} THEN <<>>
    ELSE LET first == CHOOSE n \in names : \A m \in names : NameOrder(n) <= NameOrder(m)
         IN  <<first>> \o readdirSync(names \ {first})

RECURSIVE insertSorted_oldestFirst(_, _)
\* slip: the comparison the other way round (a.mtime - b.mtime)
insertSorted_oldestFirst(sorted, f) ==
    IF sorted = <<>> THEN <<f>>
    ELSE IF Head(sorted).mtime <= f.mtime
    THEN <<Head(sorted)>> \o insertSorted_oldestFirst(Tail(sorted), f)
    ELSE <<f>> \o sorted

\* .sort((a, b) => b.mtime - a.mtime), a stable sort: one more element put in place
RECURSIVE insertSorted(_, _)
insertSorted(sorted, f) ==
    IF sorted = <<>> THEN <<f>>
    ELSE IF Head(sorted).mtime >= f.mtime
    THEN <<Head(sorted)>> \o insertSorted(Tail(sorted), f)
    ELSE <<f>> \o sorted

RECURSIVE sortNewestFirst(_, _)
sortNewestFirst(files, sorted) ==
    IF files = <<>> THEN sorted
    ELSE sortNewestFirst(Tail(files), insertSorted(sorted, Head(files)))

\* files.slice(maxBackups)
slice(files, start) == SubSeq(files, start + 1, Len(files))

\* the directory without the named files
unlinkAll(dir, names) == [n \in DOMAIN dir \ names |-> dir[n]]

rotateBackups(dir, max) ==
    LET listed == SelectSeq(readdirSync(DOMAIN dir), backupPattern)
        files == sortNewestFirst([k \in DOMAIN listed |->
                                    [name |-> listed[k], mtime |-> dir[listed[k]].mtime]], <<>>)
        filesToDelete == IF Len(files) > max THEN slice(files, max) ELSE <<>>
    IN  unlinkAll(dir, Range(Col(filesToDelete, "name")))

\* what a run leaves behind
Outcome(res, dbFile, dir, hash) ==
    [result |-> res, database |-> dbFile, backupDir |-> dir, hashFile |-> hash]
BackupError == [status |-> "error"]
BackupSkipped == [status |-> "skipped"]
BackupSuccess(name) == [status |-> "success", backupFile |-> name]

\* the operations of a run that can throw
Faults == {"none", "copyFileSync", "verifyBackup", "renameSync"}

\* slip: the hash file written before the copy is made and verified
hashAfter_beforeCopy(lastHash, currentHash, fault) == currentHash

\* the hash file after a run that found a change: writeFileSync comes after
\* copyFileSync, verifyBackup and renameSync, and is not reached when one throws
hashAfter(lastHash, currentHash, fault) ==
    IF fault = "none" THEN currentHash ELSE lastHash

\* performBackup from the copy on: copy to the temporary name, verify, rename,
\* write the hash file, rotate
copyAndRecord(dbFile, dir, hash, now, max, fault) ==
    LET backupPath == BackupName(timestampOf(now))
        tempPath == TempName(timestampOf(now))
        copied == [n \in DOMAIN dir \cup {tempPath} |->
                      IF n = tempPath THEN File(now, dbFile.main) ELSE dir[n]]
        renamed == [n \in (DOMAIN copied \ {tempPath}) \cup {backupPath} |->
                      IF n = backupPath THEN copied[tempPath] ELSE copied[n]]
    IN  IF fault = "copyFileSync" THEN Outcome(BackupError, dbFile, dir, hash)
        ELSE IF fault = "verifyBackup" THEN Outcome(BackupError, dbFile, copied, hash)
        ELSE IF fault = "renameSync" THEN Outcome(BackupError, dbFile, copied, hash)
        ELSE Outcome(BackupSuccess(backupPath), dbFile, rotateBackups(renamed, max), hash)

\* performBackup after the checkpoint: the comparison of the hashes
backupChanged(dbFile, dir, lastHash, now, max, fault) ==
    IF calculateFileHash(dbFile.main) = lastHash
    THEN Outcome(BackupSkipped, dbFile, dir, lastHash)
    ELSE copyAndRecord(dbFile, dir, hashAfter(lastHash, calculateFileHash(dbFile.main), fault),
                       now, max, fault)

performBackup(config, fault) ==
    IF database = None THEN Outcome(BackupError, database, backupDir, hashFile)
    ELSE backupChanged(checkpointWAL(database), backupDir, hashFile, clock, config.maxBackups, fault)

\* nothing of the backup daemon is running
NoBackup ==
    /\ database = None
    /\ backupDir = <<>>
    /\ hashFile = None
    /\ clock = 0
    /\ maxBackups = 0
    /\ before = None
    /\ backupResult = None

\* no request is being made
NoRequest ==
    /\ pc = "idle"
    /\ query = <<>>
    /\ db = FixtureStore
    /\ tokens = <<>>
    /\ pos = 0
    /\ filterTree = None
    /\ dateRange = None
    /\ from_date = None
    /\ to_date = None
    /\ filter_expr = <<>>
    /\ line_level_filter = FALSE
    /\ response = None

\* the contents a write can leave the database with
Contents == 1..MaxContent

\* the daemon started in an environment, on a new backup directory
InitBackup ==
    /\ NoRequest
    /\ database \in {None} \cup {[main |-> c, wal |-> <<>>] : c \in Contents}
    /\ backupDir = <<>>
    /\ hashFile = None
    /\ clock = 0
    /\ maxBackups \in BackupConfigs
    /\ before = None
    /\ backupResult = None

\* time passes
Tick ==
    /\ clock < MaxClock
    /\ clock' = clock + 1
    /\ before' = None
    /\ backupResult' = None
    /\ UNCHANGED <<database, backupDir, hashFile, maxBackups>>
    /\ UNCHANGED requestVars

\* the application commits a transaction: its frames go to the WAL
Write ==
    /\ \E c \in Contents :
          database' = IF database = None THEN [main |-> c, wal |-> <<>>]
                      ELSE [database EXCEPT !.wal = <<c>>]
    /\ before' = None
    /\ backupResult' = None
    /\ UNCHANGED <<backupDir, hashFile, clock, maxBackups>>
    /\ UNCHANGED requestVars

\* what a run has made of the files
Ran(found, out) ==
    /\ before' = found
    /\ backupResult' = out.result
    /\ database' = out.database
    /\ backupDir' = out.backupDir
    /\ hashFile' = out.hashFile

\* runBackup of the schedule: one run of performBackup, which has no await in it
PerformBackup ==
    /\ \E fault \in Faults :
          Ran([database |-> database, backupDir |-> backupDir, hashFile |-> hashFile],
              performBackup([maxBackups |-> maxBackups], fault))
    /\ UNCHANGED <<clock, maxBackups>>
    /\ UNCHANGED requestVars

NextBackup == Tick \/ Write \/ PerformBackup

(***************************************************************************)
(* The request pipeline                                                    *)
(***************************************************************************)
InitWith(queries, stores) ==
    /\ pc = "input"
    /\ query \in queries
    /\ db \in stores
    /\ tokens = <<>>
    /\ pos = 0
    /\ filterTree = None
    /\ dateRange = None
    /\ from_date = None
    /\ to_date = None
    /\ filter_expr = <<>>
    /\ line_level_filter = FALSE
    /\ response = None
    /\ NoBackup

Init == InitWith(FreeQueries \cup UnclosedQueries, SampleStores)

\* the same queries against one store
InitParser == InitWith(FreeQueries \cup UnclosedQueries, {FixtureStore})

InitChars == InitWith(CharQueries, {FixtureStore})

InitWords == InitWith(TokenizerQueries, {FixtureStore})

InitDates == InitWith(DateQueries, {DatedStore})

\* a request sent to GET /api/transactions by another client
InitRequest(exprs) ==
    /\ pc = "sent"
    /\ query = <<>>
    /\ db \in Stores
    /\ tokens = <<>>
    /\ pos = 0
    /\ filterTree = None
    /\ dateRange = None
    /\ from_date = None
    /\ to_date = None
    /\ filter_expr \in exprs
    /\ line_level_filter \in BOOLEAN
    /\ response = None
    /\ NoBackup

InitDirectWith(trees) == InitRequest({JsonStringify(t) : t \in trees})

InitDirect == InitDirectWith(WireTrees)

InitStores == InitWith(ShortQueries, Stores) \/ InitDirect

InitLines == InitWith(ShortQueries, SampleStores) \/ InitDirectWith(LineTrees)

InitWire == InitWith(ShortQueries, SampleStores) \/ InitRequest({WireJson(t) : t \in MalformedTrees})

\* fetchTransactions of the pages: parseQuery, buildQueryString, then the request
SubmitParsed(parsed) ==
    /\ tokens' = parsed.tokens
    /\ pos' = parsed.pos
    /\ filterTree' = parsed.filterTree
    /\ dateRange' = parsed.dateRange
    /\ from_date' = from_dateParam(parsed)
    /\ to_date' = to_dateParam(parsed)
    /\ filter_expr' = buildQueryString(parsed)

Submit ==
    /\ pc = "input"
    /\ SubmitParsed(parseQuery(query))
    /\ \E llf \in BOOLEAN : line_level_filter' = llf
    /\ pc' = "sent"
    /\ UNCHANGED <<query, db, response>>
    /\ UNCHANGED backupVars

\* GET /api/transactions: TransactionRepository.findAll
FindAll ==
    /\ pc = "sent"
    /\ response' = findAll(TransactionFilter(filter_expr, line_level_filter, from_date, to_date))
    /\ pc' = "done"
    /\ UNCHANGED <<query, tokens, pos, filterTree, dateRange, from_date, to_date, filter_expr,
                   line_level_filter, db>>
    /\ UNCHANGED backupVars

Next == Submit \/ FindAll

Spec == Init /\ [][Next]_vars

SpecParser == InitParser /\ [][Next]_vars

SpecChars == InitChars /\ [][Next]_vars

SpecWords == InitWords /\ [][Next]_vars

SpecDates == InitDates /\ [][Next]_vars

SpecStores == InitStores /\ [][Next]_vars

SpecLines == InitLines /\ [][Next]_vars

SpecWire == InitWire /\ [][Next]_vars

SpecBackup == InitBackup /\ [][NextBackup]_vars

(***************************************************************************)
(* Properties                                                              *)
(***************************************************************************)
TokenTypes == [k \in DOMAIN tokens |-> tokens[k].type]
LeafOf(token) == FilterLeaf(token.field, token.value, token.isEmpty)
Parsed == pc /= "input"

\* C1: precedence. A token sequence `a and b or c` parses to Or[And[a,b], c]
\* (never And[a, Or[b,c]]) and `a or b and c` parses to Or[a, And[b,c]].
C1_Precedence ==
    Parsed =>
      /\ TokenTypes = <<"filter", "and", "filter", "or", "filter", "eof">>
           => filterTree = Group("or", <<Group("and", <<LeafOf(tokens[1]), LeafOf(tokens[3])>>),
                                          LeafOf(tokens[5])>>)
      /\ TokenTypes = <<"filter", "or", "filter", "and", "filter", "eof">>
           => filterTree = Group("or", <<LeafOf(tokens[1]),
                                          Group("and", <<LeafOf(tokens[3]), LeafOf(tokens[5])>>)>>)

C1_Witness ==
    /\ Parsed
    /\ TokenTypes = <<"filter", "and", "filter", "or", "filter", "eof">>
    /\ tokens[1] /= tokens[3]
    /\ filterTree.operator = "or"

\* n filters joined by the operator op and nothing else
IsChain(op) ==
    /\ Len(tokens) >= 4
    /\ Len(tokens) % 2 = 0
    /\ \A k \in 1..(Len(tokens) - 1) :
          tokens[k].type = (IF k % 2 = 1 THEN "filter" ELSE op)

\* C2: flattening. n >= 2 filters joined by one operator, without parentheses,
\* parse to a single group of that operator whose children are the n leaves in
\* input order.
C2_Flattening ==
    Parsed =>
      \A op \in {"and", "or"} :
         IsChain(op) =>
            filterTree = Group(op, [k \in 1..(Len(tokens) \div 2) |-> LeafOf(tokens[2 * k - 1])])

C2_Witness ==
    /\ Parsed
    /\ IsChain("and")
    /\ Len(tokens) = 6
    /\ Len(filterTree.children) = 3

ResponseIds == {response.items[k].id : k \in DOMAIN response.items}
CountChar(c) == Cardinality({k \in DOMAIN query : query[k] = c})
CountType(ty) == Cardinality({k \in DOMAIN tokens : tokens[k].type = ty})

\* C3: grouping overrides precedence. The raw string `a and (b or c)` parses to
\* And[a, Or[b,c]] whose leaves carry exactly the typed field and value, and
\* every parenthesis character outside a quoted value (the strings drawn have
\* no quotes) yields exactly one lparen/rparen token.
C3_Grouping ==
    Parsed =>
      /\ \A a \in TypedFilters, b \in TypedFilters, c \in TypedFilters :
            query = GroupedQuery(a, b, c)
               => filterTree = Group("and", <<TypedLeaf(a),
                                              Group("or", <<TypedLeaf(b), TypedLeaf(c)>>)>>)
      /\ CountType("lparen") = CountChar("(")
      /\ CountType("rparen") = CountChar(")")

\* C4: all four fields are recognised. `field:v` with an unquoted v tokenizes to
\* one Filter token with that field and value and parses to that leaf (with
\* isEmpty for `-`), for category, tag, account and counterparty alike.
C4_AllFields ==
    Parsed =>
      \A f \in AllFields, v \in {Str_Food, Str_dash} :
         query = f \o <<":">> \o v
            => /\ tokens = <<FilterToken(f, v), EofToken>>
               /\ filterTree = FilterLeaf(f, v, v = Str_dash)

Untagged ==
    {db.transactions[k].id : k \in
        {x \in DOMAIN db.transactions :
            \A r \in DOMAIN db.transactionTags :
               db.transactionTags[r].transaction_id /= db.transactions[x].id}}

\* C5: sentinel. `tag:-` parses to the leaf (tag, "-", isEmpty) and, serialized
\* and evaluated, the request returns exactly the transactions that have no row
\* in the transaction-tag relation.
C5_Sentinel ==
    (Parsed /\ trim(query) = Lex_tagEmpty) =>
       /\ filterTree = FilterLeaf(Str_tag, Str_dash, TRUE)
       /\ pc = "done" => ResponseIds = Untagged

C5_Witness ==
    /\ pc = "done"
    /\ trim(query) = Lex_tagEmpty
    /\ ResponseIds /= {}
    /\ Len(db.transactionTags) > 0

RECURSIVE SubNodes(_)
SubNodes(node) ==
    {node} \cup (IF Is(node, "type", "group") /\ "children" \in DOMAIN node
                 THEN UNION {SubNodes(node.children[k]) : k \in DOMAIN node.children}
                 ELSE {})

AllIds == {db.transactions[k].id : k \in DOMAIN db.transactions}
IdSet(node) == Range(evaluateFilterTree(node))

\* C6: set algebra. Every group with at least one child evaluates to the
\* intersection (and) or the union (or) of what its children evaluate to, at
\* every level of the tree; on transactions {1,2,3} with 1,2 in Food and 2,3
\* tagged Travel, `category:Food or tag:Travel` is {1,2,3} and `and` is {2}.
C6_SetAlgebra ==
    (pc = "done" /\ filter_expr /= <<>>) =>
       /\ \A n \in SubNodes(JsonParse(filter_expr)) :
             (Is(n, "type", "group") /\ HasChildren(n)) =>
                IdSet(n) = IF n.operator = "or"
                           THEN UNION {IdSet(n.children[k]) : k \in DOMAIN n.children}
                           ELSE {id \in AllIds : \A k \in DOMAIN n.children : id \in IdSet(n.children[k])}
       /\ db = FixtureStore =>
             /\ JsonParse(filter_expr) = WireGroup("or", <<WireLeaf(Str_category, Str_Food),
                                                          WireLeaf(Str_tag, Str_Travel)>>)
                  => ResponseIds = {1, 2, 3}
             /\ JsonParse(filter_expr) = WireGroup("and", <<WireLeaf(Str_category, Str_Food),
                                                           WireLeaf(Str_tag, Str_Travel)>>)
                  => ResponseIds = {2}

C6_Witness ==
    /\ pc = "done"
    /\ db = FixtureStore
    /\ JsonParse(filter_expr) = WireGroup("and", <<WireLeaf(Str_category, Str_Food),
                                                  WireLeaf(Str_tag, Str_Travel)>>)
    /\ ResponseIds = {2}

\* the decoded tree has the node structure, operators, child order and leaf
\* fields of the parsed tree t
RECURSIVE SameShape(_, _)
SameShape(t, w) ==
    IF t.type = "filter"
    THEN Is(w, "type", "filter") /\ Is(w, "field", t.field)
    ELSE /\ Is(w, "type", "group")
         /\ Is(w, "operator", t.operator)
         /\ "children" \in DOMAIN w
         /\ Len(w.children) = Len(t.children)
         /\ \A k \in DOMAIN t.children : SameShape(t.children[k], w.children[k])

\* what a parsed leaf means: `dimension absent` with isEmpty, else a match of
\* the literal value
LeafMeaning(t) ==
    IF t.field = Str_category
    THEN (IF t.isEmpty THEN Range(categoryEmptyIds) ELSE Range(categoryNamedIds(t.value)))
    ELSE IF t.field = Str_tag
    THEN (IF t.isEmpty THEN Range(tagEmptyIds) ELSE Range(tagNamedIds(t.value)))
    ELSE IF t.field = Str_counterparty
    THEN (IF t.isEmpty THEN Range(counterpartyEmptyIds) ELSE Range(counterpartyNamedIds(t.value)))
    ELSE (IF t.isEmpty THEN {} ELSE Range(getAccountTransactionIds(t.value)))

RECURSIVE Meaning(_)
Meaning(t) ==
    IF t.type = "filter" THEN LeafMeaning(t)
    ELSE IF t.children = <<>> THEN {}
    ELSE IF t.operator = "or" THEN UNION {Meaning(t.children[k]) : k \in DOMAIN t.children}
    ELSE {id \in AllIds : \A k \in DOMAIN t.children : id \in Meaning(t.children[k])}

\* the same for one line: only category leaves constrain a line
RECURSIVE LineMeaning(_, _)
LineMeaning(line, t) ==
    IF t.type = "filter"
    THEN (IF t.field /= Str_category THEN TRUE
          ELSE IF t.isEmpty THEN line.category_id = NullId
          ELSE \E c \in DOMAIN db.categories :
                  db.categories[c].id = line.category_id /\ like(db.categories[c].name, t.value))
    ELSE IF t.children = <<>> THEN FALSE
    ELSE IF t.operator = "or" THEN \E k \in DOMAIN t.children : LineMeaning(line, t.children[k])
    ELSE \A k \in DOMAIN t.children : LineMeaning(line, t.children[k])

\* C7: round trip. The tree decoded from filter_expr has the structure,
\* operators, child order and leaf fields of the parsed tree, and the evaluator
\* and the line matcher give on it what the parsed tree means (isEmpty leaves as
\* `dimension absent`, the others by their literal value).
C7_RoundTrip ==
    (pc = "done" /\ filterTree /= None) =>
       /\ SameShape(filterTree, JsonParse(filter_expr))
       /\ IdSet(JsonParse(filter_expr)) = Meaning(filterTree)
       /\ \A l \in DOMAIN db.transactionLines :
             lineMatchesFilter(db.transactionLines[l], JsonParse(filter_expr))
                = LineMeaning(db.transactionLines[l], filterTree)

\* C8: the marker is distinct from every literal value. A leaf typed with a
\* value other than `-` never serializes to what the sentinel leaf of the same
\* field serializes to.
C8_MarkerDistinct ==
    (Parsed /\ filterTree /= None /\ filterTree.type = "filter" /\ ~filterTree.isEmpty) =>
       filter_expr /= JsonStringify(serializeFilterNode(FilterLeaf(filterTree.field, Str_dash, TRUE)))

\* the ids the API returns for the query text q against the current store
IdsOfQuery(q) ==
    {findAll(TransactionFilter(buildQueryString(parseQuery(q)), FALSE, None, None)).items[k].id :
        k \in DOMAIN findAll(TransactionFilter(buildQueryString(parseQuery(q)), FALSE, None, None)).items}

\* C9: a dangling trailing operator is ignored. `X and` returns the
\* transactions that `X` alone returns.
C9_DanglingAnd ==
    pc = "done" =>
       \A X \in Filters :
          trim(query) = X \o Sp \o Str_and => ResponseIds = IdsOfQuery(X)

NoFilterToken == \A k \in DOMAIN tokens : tokens[k].type /= "filter"

\* a filter with one orphan operator or one unmatched parenthesis around it
Orphaned(X) ==
    {X \o Sp \o Str_and, X \o Sp \o Str_or, Str_and \o Sp \o X, Str_or \o Sp \o X,
     <<"(">> \o Sp \o X, X \o Sp \o <<")">>}

\* C10: fail open. A query that is blank or holds no filter (only keywords, only
\* parentheses) is answered like a request without filter_expr, and an orphan
\* operator or unmatched parenthesis never removes a transaction that the
\* well-formed part of the query selects.
C10_FailOpen ==
    pc = "done" =>
       /\ NoFilterToken
             => response = findAll(TransactionFilter(<<>>, line_level_filter, from_date, to_date))
       /\ \A X \in Filters : trim(query) \in Orphaned(X) => IdsOfQuery(X) \subseteq ResponseIds

\* C11: tree invariant. The tree parsed from a non-empty input (at least one
\* token before eof) contains no group with zero children.
C11_NoEmptyGroup ==
    (Parsed /\ Len(tokens) >= 2) =>
       \A n \in SubNodes(filterTree) : n.type = "group" => n.children /= <<>>

\* the operator tokens the tokenizer pushes while scanning q from index i, each
\* with the index it was read at
RECURSIVE OperatorsFrom(_, _)
OperatorsAfter(q, at, s) ==
    IF s.stop THEN {}
    ELSE {[at |-> at, type |-> s.push[k].type] : k \in {x \in DOMAIN s.push : s.push[x].type \in {"and", "or"}}}
         \cup OperatorsFrom(q, s.next)
OperatorsFrom(q, i) ==
    IF i > Len(q) THEN {} ELSE OperatorsAfter(q, skipSpaces(q, i), tokenizeStep(q, i))

\* the keyword word is spelled at index i of the query, in any case, and is
\* followed by whitespace or by the end of the input
KeywordAt(i, word) ==
    /\ lowerEqualsAt(query, i, word)
    /\ (i + Len(word) > Len(query) \/ IsSpace(query[i + Len(word)]))

\* C12: keyword boundary. An and (or) token is emitted at index i only if the
\* three (two) characters at i spell the keyword in any case and whitespace or
\* the end of input follows; `android:value` and `organization:value` give no
\* operator token.
C12_KeywordBoundary ==
    Parsed =>
       /\ \A e \in OperatorsFrom(query, 1) :
             KeywordAt(e.at, IF e.type = "and" THEN Str_and ELSE Str_or)
       /\ Cardinality(OperatorsFrom(query, 1)) = CountType("and") + CountType("or")
       /\ query \in {<<"a","n","d","r","o","i","d">> \o <<":">> \o Str_value, <<"o","r","g","a","n","i","z","a","t","i","o","n">> \o <<":">> \o Str_value}
             => tokens = <<EofToken>>

C12_Witness ==
    /\ Parsed
    /\ query = Lex_catFood \o Sp \o Str_and \o Lex_tagEmpty
    /\ TokenTypes = <<"filter", "filter", "eof">>

\* C13: case-insensitivity. Whatever the capitalisation of the field names and
\* of the keyword in `a op b`, the tree is the one of the all-lower-case query:
\* the group of the keyword over the two leaves with lower-case field names and
\* the values as typed.
C13_CaseInsensitive ==
    Parsed =>
       \A a \in CaseFilters, b \in CaseFilters, op \in {Str_and, Str_or} :
          \A fa \in CaseVariants(a.field), fb \in CaseVariants(b.field), kw \in CaseVariants(op) :
             query = CaseQuery(fa, a, kw, fb, b)
                => /\ filterTree = parseQuery(CaseQuery(a.field, a, op, b.field, b)).filterTree
                   /\ filterTree = Group(IF op = Str_and THEN "and" ELSE "or",
                                         <<FilterLeaf(a.field, a.value, FALSE),
                                           FilterLeaf(b.field, b.value, FALSE)>>)

C13_Witness ==
    /\ Parsed
    /\ query = CaseQuery(toUpperCase(Str_category), [field |-> Str_category, value |-> Str_Food],
                         toUpperCase(Str_and),
                         toUpperCase(Str_tag), [field |-> Str_tag, value |-> Str_trip])
    /\ filterTree = Group("and", <<FilterLeaf(Str_category, Str_Food, FALSE),
                                   FilterLeaf(Str_tag, Str_trip, FALSE)>>)

\* C14: quoted values keep their blanks. `f:"v"` for a field f of the tokenizer
\* and a text v with blanks and no quote is one Filter token and one leaf
\* (f, v, isEmpty = false) without the quotes; `and`/`or` inside the quotes give
\* no operator token.
C14_QuotedValue ==
    Parsed =>
       \A k \in DOMAIN RegexFields, v \in QuotedTexts :
          /\ query = Quoted(RegexFields[k], v)
                => /\ tokens = <<[type |-> "filter", field |-> RegexFields[k], value |-> v,
                                  isEmpty |-> FALSE], EofToken>>
                   /\ filterTree = FilterLeaf(RegexFields[k], v, FALSE)
          /\ query = Lex_tagEmpty \o Sp \o Str_and \o Sp \o Quoted(Str_category, v)
                => filterTree = Group("and", <<FilterLeaf(Str_tag, Str_dash, TRUE),
                                               FilterLeaf(Str_category, v, FALSE)>>)

C14_Witness ==
    /\ Parsed
    /\ query = Quoted(Str_category, <<"a"," ","a","n","d"," ","b">>)
    /\ filterTree = FilterLeaf(Str_category, <<"a"," ","a","n","d"," ","b">>, FALSE)

\* C15: escaped quotes. `f:"a""b"` is a single Filter token whose value spans
\* the quoted string up to the closing quote (a, the quote, b) and nothing else
\* is produced from it.
C15_EscapedQuote ==
    Parsed =>
       \A k \in DOMAIN RegexFields, a \in EscapedParts, b \in EscapedParts :
          query = Escaped(RegexFields[k], a, b)
             => /\ TokenTypes = <<"filter", "eof">>
                /\ tokens[1].field = RegexFields[k]
                /\ tokens[1].value \in {a \o <<"\"">> \o b, a \o <<"\"", "\"">> \o b}

\* C16: unmatched opening parenthesis. For a well-formed expression E typed
\* with blanks between its tokens, `( E` parses to a tree, the one `( E )`
\* parses to.
C16_UnclosedParen ==
    Parsed =>
       \A E \in WellFormed :
          query = Unclosed(E)
             => /\ filterTree /= None
                /\ filterTree = parseQuery(Closed(E)).filterTree

C16_Witness ==
    /\ Parsed
    /\ query = Unclosed(Lex_catFood \o Sp \o Str_or \o Sp \o Lex_tagEmpty \o Sp)
    /\ filterTree = Group("or", <<FilterLeaf(Str_category, Str_Food, FALSE),
                                  FilterLeaf(Str_tag, Str_dash, TRUE)>>)

\* the Date of the day a typed date names
DateOf(d) == newDate(d.year, d.month - 1, d.day)

\* C17: date-range extraction. For a query holding `between <d1> and <d2>`
\* (M/D/YY or M/D/YYYY), dateRange is {from: d1, to: d2} with two-digit years
\* 00-49 in 2000-2049 and 50-99 in 1950-1999, and the filter tree is the one of
\* the query without the clause: the clause's `and` is no And token;
\* `between 1/1/24 and 1/31/24` alone gives 2024-01-01 to 2024-01-31 and no tree.
C17_DateRange ==
    Parsed =>
       /\ \A pre \in BeforeClause, post \in AfterClause, w \in ClauseWords :
             \A d1 \in TypedDates, d2 \in TypedDates :
                query = DateQuery(pre, w, d1.text, d2.text, post)
                   => /\ dateRange = [from |-> DateOf(d1), to |-> DateOf(d2)]
                      /\ filterTree = parseQuery(pre \o post).filterTree
                      /\ tokens = parseQuery(pre \o post).tokens \o
                                     (IF pre \o post = <<>> THEN <<EofToken>> ELSE <<>>)
       /\ query = <<"b","e","t","w","e","e","n"," ","1","/","1","/","2","4"," ","a","n","d"," "," ","1","/","3","1","/","2","4">>
             => /\ dateRange = [from |-> newDate(2024, 0, 1), to |-> newDate(2024, 0, 31)]
                /\ filterTree = None

C17_Witness ==
    /\ pc = "done"
    /\ query = DateQuery(Lex_tagEmpty \o Sp \o Str_and \o Sp, [between |-> Str_between, and |-> Str_and],
                         <<"0","1","/","0","5","/","4","9">>, <<"1","2","/","3","1","/","9","9">>, <<>>)
    /\ dateRange = [from |-> newDate(2049, 0, 5), to |-> newDate(1999, 11, 31)]
    /\ CountType("and") = 1

\* text contains v, letters compared without regard to case
Contains(text, v) ==
    \E i \in 1..(Len(text) + 1) :
       /\ i + Len(v) - 1 <= Len(text)
       /\ \A k \in DOMAIN v : toLowerChar(text[i + k - 1]) = toLowerChar(v[k])

\* what a leaf asks of a line
LeafAsks(line, leaf) ==
    IF leaf.field /= Str_category THEN TRUE
    ELSE IF leaf.value = Str_emptyMarker THEN line.category_id = NullId
    ELSE \E c \in DOMAIN db.categories :
            db.categories[c].id = line.category_id /\ Contains(db.categories[c].name, leaf.value)

LinesOfTransaction(id) == SelectSeq(db.transactionLines, LAMBDA l : l.transaction_id = id)

C19_LineGroup ==
    filter_expr /= <<>> =>
       \A n \in SubNodes(JsonParse(filter_expr)) :
          Is(n, "type", "group") =>
             \A l \in DOMAIN db.transactionLines :
                /\ (HasChildren(n) /\ n.operator = "and") =>
                      lineMatchesFilter(db.transactionLines[l], n)
                         = \A k \in DOMAIN n.children :
                              lineMatchesFilter(db.transactionLines[l], n.children[k])
                /\ (HasChildren(n) /\ n.operator = "or") =>
                      lineMatchesFilter(db.transactionLines[l], n)
                         = \E k \in DOMAIN n.children :
                              lineMatchesFilter(db.transactionLines[l], n.children[k])
                /\ ~HasChildren(n) =>
                      /\ ~lineMatchesFilter(db.transactionLines[l], n)
                      /\ evaluateFilterTree(n) = <<>>

C19_Witness ==
    /\ pc = "done"
    /\ line_level_filter
    /\ db = SplitStore
    /\ JsonParse(filter_expr) = WireGroup("and", <<WireLeaf(Str_category, Str_emptyMarker),
                                                  WireLeaf(Str_tag, Str_Travel)>>)
    /\ Len(response.items) = 1
    /\ Len(response.items[1].lines) = 1

\* the answer to the same request with line_level_filter the other way
OtherWay == findAll(TransactionFilter(filter_expr, ~line_level_filter, from_date, to_date))

\* C20: line-level filtering never excludes a parent. With and without
\* line_level_filter the request returns the same transactions in the same
\* order and the same total; only the lines differ, and the lines returned are
\* lines of that transaction.
C20_ParentsKept ==
    pc = "done" =>
       /\ [k \in DOMAIN response.items |-> response.items[k].id]
             = [k \in DOMAIN OtherWay.items |-> OtherWay.items[k].id]
       /\ response.total = OtherWay.total
       /\ \A k \in DOMAIN response.items :
             Range(response.items[k].lines) \subseteq Range(LinesOfTransaction(response.items[k].id))

C20_Witness ==
    /\ pc = "done"
    /\ line_level_filter
    /\ filter_expr /= <<>>
    /\ \E k \in DOMAIN response.items :
          /\ response.items[k].lines = <<>>
          /\ LinesOfTransaction(response.items[k].id) /= <<>>

Status == IF "status" \in DOMAIN backupResult THEN backupResult.status ELSE "none"
\* the files named accounting-<timestamp>.db in a directory
Backups(dir) == {n \in DOMAIN dir : backupPattern(n)}

\* C22: rotation bound. At the end of every successful run of performBackup
\* (maxBackups >= 1, 12 when the environment does not set it) the backup
\* directory holds at most maxBackups files named accounting-<timestamp>.db;
\* they are the most recently modified of the files the run had, none is
\* deleted without need, and the backup just created is among them.
C22_Rotation ==
    /\ maxBackupsOf(<<>>) = 12
    /\ Status = "success" =>
          LET had == Backups(before.backupDir) \cup {backupResult.backupFile}
              kept == Backups(backupDir)
              mtimeOf(n) == IF n = backupResult.backupFile THEN clock
                            ELSE before.backupDir[n].mtime
          IN  /\ maxBackups >= 1
              /\ Cardinality(kept) <= maxBackups
              /\ kept \subseteq had
              /\ Cardinality(kept) = IF Cardinality(had) > maxBackups THEN maxBackups
                                     ELSE Cardinality(had)
              /\ \A k \in kept : \A d \in had \ kept : mtimeOf(k) >= mtimeOf(d)
              /\ \A k \in kept \ {backupResult.backupFile} : backupDir[k] = before.backupDir[k]
              /\ backupResult.backupFile \in kept
              /\ backupDir[backupResult.backupFile] = File(clock, database.main)

\* a run that found maxBackups backups, made one more and deleted the oldest
C22_Witness ==
    /\ Status = "success"
    /\ maxBackups = 2
    /\ Cardinality(Backups(before.backupDir)) = 2
    /\ backupResult.backupFile \notin Backups(before.backupDir)
    /\ Cardinality(Backups(backupDir)) = 2

\* the hash of the database as a run that found it finds it after its checkpoint
HashFound == calculateFileHash(checkpointWAL(before.database).main)
\* the files of the backup directory a run created or rewrote
Written == {n \in DOMAIN backupDir : n \notin DOMAIN before.backupDir
                                      \/ backupDir[n] /= before.backupDir[n]}

IsVoid(n) ==
    \/ Is(n, "type", "group") /\ ~HasChildren(n)
    \/ ~Is(n, "type", "filter") /\ ~Is(n, "type", "group")
    \/ /\ Is(n, "type", "filter")
       /\ \A f \in AllFields : ~Is(n, "field", f)

\* C24: zero-child groups evaluate to nothing. A group whose children list is
\* empty or missing evaluates to no transaction for `and` and for `or`, and so
\* do a node of unknown type and a leaf of an unknown field; an `and` group
\* holding such a node evaluates to no transaction, and a request for it
\* returns none.
C24_VoidIsEmpty ==
    filter_expr /= <<>> =>
       /\ \A n \in SubNodes(JsonParse(filter_expr)) :
             /\ IsVoid(n) => evaluateFilterTree(n) = <<>>
             /\ (/\ Is(n, "type", "group")
                 /\ Is(n, "operator", "and")
                 /\ HasChildren(n)
                 /\ \E k \in DOMAIN n.children : IsVoid(n.children[k]))
                   => evaluateFilterTree(n) = <<>>
       /\ (pc = "done" /\ IsVoid(JsonParse(filter_expr))) => response = EmptyPage

\* a leaf that matches transactions, and-ed with a group that lacks children
C24_Witness ==
    /\ pc = "done"
    /\ db = FixtureStore
    /\ JsonParse(filter_expr) = WireGroup("and", <<[type |-> "group", operator |-> "or"],
                                                  WireLeaf(Str_category, Str_Food)>>)
    /\ IdSet(WireLeaf(Str_category, Str_Food)) = {1, 2}
    /\ response = EmptyPage

\* C25: error term. parseTerm on a token that is neither a filter nor an
\* opening parenthesis (and, or, rparen, eof) returns an empty and group and
\* leaves the cursor on that token; `category:Food and` parses to
\* And[Leaf(category, Food), And[]].
C25_ErrorTerm ==
    Parsed =>
       /\ \A p \in DOMAIN tokens :
             tokens[p].type \in {"and", "or", "rparen", "eof"} =>
                parseTerm(tokens, p) = Result(Group("and", <<>>), p)
       /\ (TokenTypes = <<"filter", "and", "eof">>) =>
             filterTree = Group("and", <<LeafOf(tokens[1]), Group("and", <<>>)>>)

\* `category:Food and` parsed
C25_Witness ==
    /\ Parsed
    /\ TokenTypes = <<"filter", "and", "eof">>
    /\ tokens[1].field = Str_category
    /\ tokens[1].value = Str_Food
    /\ filterTree = Group("and", <<FilterLeaf(Str_category, Str_Food, FALSE), Group("and", <<>>)>>)
    /\ pos = 3

\* C26: tokenizer termination and eof. Every iteration of the tokenizer's loop
\* moves the index forward by at least one character and never past the end of
\* the input; characters no rule matches give no token and no error; the token
\* array holds exactly one eof, as its last token; advance never leaves the
\* array and stays on eof, so current is always a token (parseQuery builds no
\* tokenizer for a blank query).
C26_Tokenizer ==
    LET toks == tokenize(query)
    IN  /\ \A i \in DOMAIN query :
              /\ tokenizeStep(query, i).next > i
              /\ tokenizeStep(query, i).next <= Len(query) + 1
        /\ Len(toks) <= Len(query) + 1
        /\ \A k \in DOMAIN toks : toks[k].type \in {"lparen", "rparen", "and", "or", "filter", "eof"}
        /\ (\A k \in DOMAIN query : query[k] = "x" \/ IsSpace(query[k])) => toks = <<EofToken>>
        /\ toks /= <<>>
        /\ {k \in DOMAIN toks : toks[k].type = "eof"} = {Len(toks)}
        /\ \A p \in DOMAIN toks :
              /\ advance(toks, p) \in DOMAIN toks
              /\ advance(toks, p) >= p
        /\ advance(toks, Len(toks)) = Len(toks)
        /\ (Parsed /\ trim(query) /= <<>>) =>
              /\ tokens = toks
              /\ pos \in DOMAIN tokens
              /\ current(tokens, pos).type \in {"lparen", "rparen", "and", "or", "filter", "eof"}

\* a query with a character of no rule between tokens, parsed to the end
C26_Witness ==
    /\ Parsed
    /\ \E k \in DOMAIN query : query[k] = "x"
    /\ CountType("filter") >= 1
    /\ CountType("eof") = 1
    /\ isEof(tokens, pos)
    /\ advance(tokens, pos) = pos

\* a FilterNode as the parser builds them
RECURSIVE IsFilterNode(_)
IsFilterNode(node) ==
    \/ /\ Is(node, "type", "filter")
       /\ DOMAIN node = {"type", "field", "value", "isEmpty"}
    \/ /\ Is(node, "type", "group")
       /\ DOMAIN node = {"type", "operator", "children"}
       /\ node.operator \in {"and", "or"}
       /\ \A k \in DOMAIN node.children : IsFilterNode(node.children[k])

\* C27: the parser never fails and always terminates. From every position of
\* a token sequence that ends in eof, a term, an and-expression and an
\* or-expression end inside the sequence and never before their start; a
\* filter and a parenthesised term consume at least one token, and so does
\* every iteration of the and/or loops (the operator); parseQuery returns a
\* ParsedQuery, with a filter tree or none, for every input.
C27_ParserTotal ==
    Parsed =>
       /\ filterTree = None \/ IsFilterNode(filterTree)
       /\ filterTree = None <=> (tokens = <<>> \/ TokenTypes = <<"eof">>)
       /\ tokens /= <<>> => pos \in DOMAIN tokens
       /\ \A p \in DOMAIN tokens :
             LET expr == parseOrExpression(tokens, p)
                 conj == parseAndExpression(tokens, p)
                 term == parseTerm(tokens, p)
             IN  /\ expr.pos \in p..Len(tokens)
                 /\ conj.pos \in p..expr.pos
                 /\ term.pos \in p..conj.pos
                 /\ IsFilterNode(expr.node)
                 /\ tokens[p].type \in {"filter", "lparen"} => term.pos > p
                 /\ tokens[p].type = "and" =>
                       andLoop(tokens, Result(Group("and", <<>>), p)).pos > p
                 /\ tokens[p].type = "or" =>
                       orLoop(tokens, Result(Group("and", <<>>), p)).pos > p

\* a stray `)`, a doubled operator and an unbalanced parenthesis, parsed
C27_Witness ==
    /\ Parsed
    /\ CountType("lparen") > CountType("rparen")
    /\ \E p \in DOMAIN tokens : tokens[p].type = "and" /\ tokens[p + 1].type = "or"
    /\ tokens[1].type = "rparen"
    /\ IsFilterNode(filterTree)

\* the filter tokens of the token array, in order
FilterTokens ==
    LET fs == SelectSeq(tokens, LAMBDA t : t.type = "filter")
    IN  [k \in DOMAIN fs |-> [field |-> fs[k].field, value |-> fs[k].value, isEmpty |-> fs[k].isEmpty]]

\* C28: no filter is silently dropped. When parse() has returned, the cursor
\* is on eof and the leaves of the tree, read from left to right, are the
\* filter tokens of the sequence in their order.
C28_NoFilterDropped ==
    (Parsed /\ tokens /= <<>>) =>
       /\ isEof(tokens, pos)
       /\ flattenFilterTree(filterTree) = FilterTokens

\* C29: operators are whole words. An and/or token is emitted only where the
\* keyword is followed by whitespace or the end of the input and also preceded
\* by the start of the input, whitespace or a parenthesis; a word that merely
\* ends in the keyword's letters, such as `xor`, gives no operator token.
C29_WholeWords ==
    Parsed =>
       /\ \A e \in OperatorsFrom(query, 1) :
             /\ KeywordAt(e.at, IF e.type = "and" THEN Str_and ELSE Str_or)
             /\ \/ e.at = 1
                \/ IsSpace(query[e.at - 1])
                \/ query[e.at - 1] \in {"(", ")"}
       /\ query = <<"x">> \o Str_or => CountType("or") = 0

\* a tree that is one category leaf
IsCategoryLeaf(tree) == Is(tree, "type", "filter") /\ Is(tree, "field", Str_category)

\* C30: the two interpreters agree on category leaves. For a tree that is a
\* single category leaf, with a value or with the empty sentinel, a
\* transaction is in the evaluator's id set iff at least one of its lines
\* passes the line matcher for the tree; so with line-level filtering every
\* transaction returned for such a tree keeps at least one line.
C30_Agreement ==
    (filter_expr /= <<>> /\ IsCategoryLeaf(JsonParse(filter_expr))) =>
       /\ \A id \in AllIds :
             id \in IdSet(JsonParse(filter_expr))
                <=> \E k \in DOMAIN db.transactionLines :
                       /\ db.transactionLines[k].transaction_id = id
                       /\ lineMatchesFilter(db.transactionLines[k], JsonParse(filter_expr))
       /\ IdSet(JsonParse(filter_expr)) \subseteq AllIds
       /\ (pc = "done" /\ line_level_filter) =>
             \A k \in DOMAIN response.items : response.items[k].lines /= <<>>

\* a part of a category's name in another case: the transaction with a
\* categorised and an uncategorised line is returned with the categorised one
C30_Witness ==
    /\ pc = "done"
    /\ line_level_filter
    /\ db = SplitStore
    /\ JsonParse(filter_expr) = WireLeaf(Str_category, Str_food)
    /\ ResponseIds = {1}
    /\ Len(response.items[1].lines) = 1
    /\ response.items[1].lines[1].category_id /= NullId

====
